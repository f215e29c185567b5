----------------------- MODULE DispatchWatchdogProofs -----------------------
(***************************************************************************)
(* For every deadline, poll interval and delay: a runner that was given    *)
(* its job in time is never reaped while it runs it, and one that gets no  *)
(* job is reaped within a bounded number of polls.                         *)
(*                                                                         *)
(* A single abort verdict does not give this: its observation may be older *)
(* than the deadline.  The observation that confirms it is made after the  *)
(* first verdict, so after the deadline, and by then the API shows the job.*)
(***************************************************************************)
EXTENDS DispatchWatchdog, TLAPS

(* The types the argument needs. *)
Times ==
    /\ now \in Int /\ since \in Int /\ given \in Int
    /\ runner \in RunnerStates /\ shown \in RunnerStates
    /\ pending \in BOOLEAN

(* What the API shows is at most Lag old. *)
ApiFresh == shown # runner => now <= since + Lag

(* Only a job makes a runner busy. *)
BusySinceGiven == runner = "busy" => since = given

(* Nothing is pending before the deadline has passed. *)
PendingLate == pending => now > Deadline

(* A confirming answer that does not show the job is about a job that came late. *)
ConfirmingLate ==
    pc = "answer" /\ pending /\ obs \in {"idle", "gone"} /\ runner = "busy"
      => given + Lag > Deadline

WInv ==
    Times /\ ApiFresh /\ BusySinceGiven /\ PendingLate /\ ConfirmingLate /\ OnTimeSpared

(* The watchdog starts before the runner is online. *)
LEMMA WInvInit == Init => WInv
  <1> SUFFICES ASSUME Init PROVE WInv
    OBVIOUS
  <1>1. Times
    <2>1. now \in Int /\ since \in Int /\ given \in Int
      BY DEF Init
    <2>2. runner \in RunnerStates /\ shown \in RunnerStates /\ pending \in BOOLEAN
      BY DEF Init, RunnerStates
    <2> QED BY <2>1, <2>2 DEF Times
  <1>2. ApiFresh /\ BusySinceGiven /\ PendingLate /\ ConfirmingLate /\ OnTimeSpared
    BY DEF Init, ApiFresh, BusySinceGiven, PendingLate, ConfirmingLate, OnTimeSpared
  <1> QED BY <1>1, <1>2 DEF WInv

(* What the runner, GitHub and the clock do keeps the invariant. *)
LEMMA WInvWorld ==
  ASSUME WInv,
         Connect \/ Assign \/ JobEnds \/ RegistrationLost \/ ApiCatchesUp
         \/ ShellReturns \/ Tick
  PROVE  WInv'
  <1> USE WatchdogAssumption
      DEF WInv, Times, ApiFresh, BusySinceGiven, PendingLate, ConfirmingLate,
          OnTimeSpared, RunnerStates, Over, truth
  <1>1. CASE Connect BY <1>1 DEF Connect, Change
  <1>2. CASE Assign BY <1>2 DEF Assign, Change
  <1>3. CASE JobEnds BY <1>3 DEF JobEnds, Change
  <1>4. CASE RegistrationLost BY <1>4 DEF RegistrationLost, Change
  <1>5. CASE ApiCatchesUp BY <1>5 DEF ApiCatchesUp
  <1>6. CASE ShellReturns BY <1>6 DEF ShellReturns
  <1>7. CASE Tick BY <1>7 DEF Tick
  <1> QED BY <1>1, <1>2, <1>3, <1>4, <1>5, <1>6, <1>7

(* And so do the steps of watch_dispatch. *)
LEMMA WInvPoll ==
  ASSUME WInv, PollSend \/ PollRead \/ PollAnswer
  PROVE  WInv'
  <1> USE WatchdogAssumption
      DEF WInv, Times, ApiFresh, BusySinceGiven, PendingLate, ConfirmingLate,
          OnTimeSpared, RunnerStates, truth
  <1>1. CASE PollSend BY <1>1 DEF PollSend
  <1>2. CASE PollRead BY <1>2 DEF PollRead
  <1>3. CASE PollAnswer BY <1>3 DEF PollAnswer, ConfirmAbort, AbortVerdict
  <1> QED BY <1>1, <1>2, <1>3

(* The watchdog never reaps a runner whose job came in time. *)
THEOREM WatchdogOnTimeSpared == Spec => []OnTimeSpared
  <1>1. Init => WInv
    BY WInvInit
  <1>2. WInv /\ [Next]_vars => WInv'
    <2>1. ASSUME WInv, UNCHANGED vars PROVE WInv'
      BY <2>1
      DEF vars, WInv, Times, ApiFresh, BusySinceGiven, PendingLate, ConfirmingLate,
          OnTimeSpared
    <2> QED BY <2>1, WInvWorld, WInvPoll DEF Next
  <1>3. WInv => OnTimeSpared
    BY DEF WInv
  <1> QED BY <1>1, <1>2, <1>3, PTL DEF Spec
-----------------------------------------------------------------------------
(* The ticker's grid, for any poll interval. *)
LEMMA GridStep ==
  ASSUME NEW t \in Nat, NEW p \in Nat \ {0}
  PROVE  /\ (t \div p + 1) * p \in Nat
         /\ (t \div p + 1) * p <= t + p
         /\ ((t \div p + 1) * p) % p = 0
  <1> DEFINE q == t \div p
             k == q + 1
             m == k * p
             d == m \div p
             r == m % p
  <1>1. q \in Nat /\ q * p <= t
    OBVIOUS
  <1>2. k \in Nat /\ m \in Nat /\ m = q * p + p
    BY <1>1
  <1>3. d \in Int /\ r \in Nat /\ r < p /\ m = p * d + r
    BY <1>2
  <1>4. r = 0
    <2> HIDE DEF q, k, m, d, r
    <2>1. m = k * p
      BY DEF m
    <2>2. (k - d) * p = r
      BY <1>2, <1>3, <2>1
    <2>3. ~(k - d >= 1)
      <3> SUFFICES ASSUME k - d >= 1 PROVE (k - d) * p >= p
        BY <1>3, <2>2
      <3> QED BY <1>2, <1>3
    <2>4. ~(k - d <= -1)
      <3> SUFFICES ASSUME k - d <= -1 PROVE (k - d) * p <= -p
        BY <1>3, <2>2
      <3> QED BY <1>2, <1>3
    <2>5. k - d = 0
      BY <2>3, <2>4, <1>2, <1>3
    <2> QED BY <2>2, <2>5, <1>3
  <1> QED BY <1>1, <1>2, <1>4

(* The tick after one that fires now: later by a poll interval at most. *)
LEMMA NextDueOnGrid ==
  ASSUME now \in Nat
  PROVE  NextDue \in Nat /\ NextDue <= now + Poll /\ NextDue % Poll = 0
  BY GridStep, WatchdogAssumption DEF NextDue

(* Every step keeps the types, the ticker on its grid among them. *)
LEMMA WTypeStep == TypeOK /\ [Next]_vars => TypeOK'
  <1> SUFFICES ASSUME TypeOK, [Next]_vars PROVE TypeOK'
    OBVIOUS
  <1> USE WatchdogAssumption DEF RunnerStates, Over, truth
  <1>1. CASE Connect BY <1>1 DEF TypeOK, Connect, Change
  <1>2. CASE Assign BY <1>2 DEF TypeOK, Assign, Change
  <1>3. CASE JobEnds BY <1>3 DEF TypeOK, JobEnds, Change
  <1>4. CASE RegistrationLost BY <1>4 DEF TypeOK, RegistrationLost, Change
  <1>5. CASE ApiCatchesUp BY <1>5 DEF TypeOK, ApiCatchesUp
  <1>6. CASE ShellReturns BY <1>6 DEF TypeOK, ShellReturns
  <1>7. CASE Tick BY <1>7 DEF TypeOK, Tick
  <1>8. CASE PollSend
    <2>1. due' = NextDue /\ UNCHANGED now
      BY <1>8 DEF PollSend
    <2>2. due' \in 0..(MaxTime + Poll) /\ due' % Poll = 0
      BY <2>1, NextDueOnGrid DEF TypeOK
    <2> QED BY <1>8, <2>2 DEF TypeOK, PollSend
  <1>9. CASE PollRead BY <1>9 DEF TypeOK, PollRead
  <1>10. CASE PollAnswer
    BY <1>10 DEF TypeOK, PollAnswer, ConfirmAbort, AbortVerdict
  <1>11. CASE UNCHANGED vars BY <1>11 DEF TypeOK, vars
  <1> QED
    BY <1>1, <1>2, <1>3, <1>4, <1>5, <1>6, <1>7, <1>8, <1>9, <1>10, <1>11 DEF Next

(* The first tick is on the grid. *)
LEMMA WTypeInit == Init => TypeOK
  <1> SUFFICES ASSUME Init PROVE TypeOK
    OBVIOUS
  <1>1. Poll % Poll = 0
    BY WatchdogAssumption
  <1>2. Poll \in Nat /\ MaxTime \in Nat /\ MaxFail \in Nat
    BY WatchdogAssumption
  <1>3. due \in 0..(MaxTime + Poll) /\ due % Poll = 0
    BY <1>1, <1>2 DEF Init
  <1>4. /\ now \in 0..MaxTime /\ since \in 0..MaxTime /\ sent \in 0..MaxTime
        /\ given \in -1..MaxTime /\ fails \in 0..MaxFail
    BY <1>2 DEF Init
  <1>5. /\ runner \in RunnerStates /\ shown \in RunnerStates /\ pc = "sleep"
        /\ obs = "unknown" /\ pending = FALSE
    BY DEF Init, RunnerStates
  <1> QED BY <1>3, <1>4, <1>5 DEF TypeOK

(* watch_dispatch keeps its ticker on the grid, whatever ticks it misses. *)
THEOREM WatchdogTypeCorrect == Spec => []TypeOK
  BY WTypeInit, WTypeStep, PTL DEF Spec
-----------------------------------------------------------------------------
(* What the failed polls have cost. *)
Blips == fails * Cycle

(* A poll follows the last one by a cycle at most, and is answered in time. *)
Paced ==
    /\ pc \in {"sleep", "sent", "answer"} => due <= sent + Poll /\ sent <= now
    /\ pc = "sleep" => now <= sent + Cycle
    /\ pc \in {"sent", "answer"} => now <= sent + Latency

(* An answer that says nothing was paid for when the poll failed. *)
Paid == pc = "sleep" \/ (pc = "answer" /\ obs = "unknown")

(* The polls that a runner without a job can see after the deadline. *)
Counted ==
    Watching => sent <= Deadline + Blips + (IF pending THEN Cycle ELSE 0)
                                         + (IF Paid THEN 0 ELSE Cycle)

(* The bound holds whenever the watchdog still polls: a busy answer parks it. *)
RInv == TypeOK /\ Paced /\ Counted

(* One failed poll more is one cycle more. *)
LEMMA BlipsType ==
  ASSUME TypeOK
  PROVE  /\ Cycle \in Nat /\ Poll <= Cycle /\ Latency <= Cycle
         /\ Blips \in Nat
         /\ (fails + 1) * Cycle = Blips + Cycle
         /\ (2 + fails) * Cycle = Blips + Cycle + Cycle
  <1>1. fails \in Nat
    BY WatchdogAssumption DEF TypeOK
  <1>2. Cycle \in Nat /\ Poll <= Cycle /\ Latency <= Cycle
    BY WatchdogAssumption DEF Cycle
  <1> HIDE DEF Cycle
  <1> QED BY <1>1, <1>2 DEF Blips

(* The steps of the runner, GitHub and the clock leave the pace alone. *)
LEMMA RInvWorld ==
  ASSUME RInv, TypeOK',
         Connect \/ Assign \/ JobEnds \/ RegistrationLost \/ ApiCatchesUp
         \/ ShellReturns \/ Tick
  PROVE  RInv'
  <1>1. Cycle \in Nat /\ Poll <= Cycle /\ Latency <= Cycle /\ Cycle' = Cycle
    BY BlipsType DEF RInv, Cycle
  <1> USE DEF Paced, Counted, Paid, Watching, Over, truth, Blips, RInv
  <1> HIDE DEF Cycle
  <1>2. CASE Tick
    <2>1. Counted'
      BY <1>1, <1>2 DEF Tick
    <2>2. Paced'
      BY <1>1, <1>2, WatchdogAssumption DEF Tick, TypeOK
    <2> QED BY <2>1, <2>2
  <1>3. CASE ~Tick
    <2>1. UNCHANGED <<now, due, sent, obs, pending, fails>> /\ pc' \in {pc, "over"}
      BY <1>3 DEF Connect, Assign, JobEnds, RegistrationLost, ApiCatchesUp,
         ShellReturns, Change
    <2>2. Counted'
      BY <1>1, <2>1
    <2>3. Paced'
      BY <1>1, <2>1
    <2> QED BY <2>2, <2>3
  <1> QED BY <1>2, <1>3

(* A poll is sent a cycle after the last at most; a failed answer is paid for by
   fails; an answer that says "idle" or "gone" is before the deadline, or arms
   the confirmation, or reaps. *)
LEMMA RInvPoll ==
  ASSUME RInv, TypeOK', PollSend \/ PollRead \/ PollAnswer
  PROVE  RInv'
  <1>1. /\ Cycle \in Nat /\ Poll <= Cycle /\ Latency <= Cycle /\ Cycle' = Cycle
        /\ Blips \in Nat /\ (fails + 1) * Cycle = Blips + Cycle
        /\ now \in Nat /\ sent \in Nat /\ due \in Nat /\ pending \in BOOLEAN
        /\ obs \in {"busy", "idle", "gone", "unknown"}
        /\ Deadline \in Nat /\ Latency \in Nat /\ Poll \in Nat
    BY BlipsType, WatchdogAssumption DEF RInv, Cycle, TypeOK
  <1>2. NextDue \in Nat /\ NextDue <= now + Poll
    BY <1>1, NextDueOnGrid
  <1> HIDE DEF Cycle, NextDue
  <1>3. CASE PollSend
    <2>1. /\ pc = "sleep" /\ pc' = "sent" /\ sent' = now /\ due' = NextDue
          /\ UNCHANGED <<now, pending, fails>>
      BY <1>3 DEF PollSend
    <2>2. Blips' = Blips
      BY <1>1, <2>1 DEF Blips
    <2>3. Counted'
      BY <1>1, <2>1, <2>2 DEF RInv, Paced, Counted, Paid, Watching
    <2>4. Paced'
      BY <1>1, <1>2, <2>1 DEF Paced
    <2> QED BY <2>3, <2>4 DEF RInv
  <1>4. CASE PollRead
    <2>1. /\ pc = "sent" /\ pc' = "answer" /\ UNCHANGED <<now, due, sent, pending>>
          /\ (fails' = fails) \/ (fails' = fails + 1 /\ obs' = "unknown")
      BY <1>4 DEF PollRead
    <2>2. \/ Blips' = Blips
          \/ Blips' = Blips + Cycle /\ obs' = "unknown"
      BY <1>1, <2>1 DEF Blips
    <2>3. fails' = fails => obs' # "unknown"
      BY <1>4 DEF PollRead, RInv, TypeOK, RunnerStates
    <2>4. Counted'
      <3>1. CASE fails' = fails
        <4>1. Blips' = Blips
          BY <1>1, <3>1 DEF Blips
        <4> QED BY <1>1, <2>1, <2>3, <3>1, <4>1 DEF RInv, Counted, Paid, Watching
      <3>2. CASE fails' = fails + 1 /\ obs' = "unknown"
        <4>1. Blips' = Blips + Cycle
          BY <1>1, <3>2 DEF Blips
        <4> QED BY <1>1, <2>1, <3>2, <4>1 DEF RInv, Counted, Paid, Watching
      <3> QED BY <2>1, <3>1, <3>2
    <2>5. Paced'
      BY <1>1, <2>1 DEF RInv, Paced
    <2> QED BY <2>4, <2>5 DEF RInv
  <1>5. CASE PollAnswer
    <2>1. pc = "answer" /\ UNCHANGED <<now, due, sent, obs, fails>>
      BY <1>5 DEF PollAnswer, truth
    <2>2. Blips' = Blips
      BY <1>1, <2>1 DEF Blips
    <2>3. Paced'
      BY <1>1, <1>5, <2>1 DEF RInv, Paced, PollAnswer, ConfirmAbort
    <2>4. Counted'
      <3>1. CASE obs = "busy"
        BY <1>5, <3>1 DEF PollAnswer, Counted, Watching
      <3>2. CASE obs = "unknown"
        BY <1>1, <1>5, <2>1, <2>2, <3>2
        DEF PollAnswer, ConfirmAbort, AbortVerdict, RInv, Counted, Paid, Watching
      <3>3. CASE obs \in {"idle", "gone"} /\ now > Deadline
        <4>1. CASE pending
          BY <1>5, <3>3, <4>1
          DEF PollAnswer, ConfirmAbort, AbortVerdict, Counted, Watching
        <4>2. CASE ~pending
          <5>1. pc' = "sleep" /\ pending' = TRUE
            BY <1>5, <3>3, <4>2 DEF PollAnswer, ConfirmAbort, AbortVerdict
          <5>2. sent <= Deadline + Blips + Cycle
            BY <1>1, <2>1, <3>3, <4>2 DEF RInv, Counted, Paid, Watching
          <5> QED BY <1>1, <2>1, <2>2, <5>1, <5>2 DEF Counted, Paid, Watching
        <4> QED BY <4>1, <4>2
      <3>4. CASE obs \in {"idle", "gone"} /\ ~(now > Deadline)
        BY <1>1, <1>5, <2>1, <2>2, <3>4
        DEF PollAnswer, ConfirmAbort, AbortVerdict, RInv, Paced, Counted, Paid, Watching
      <3> QED BY <1>1, <3>1, <3>2, <3>3, <3>4
    <2> QED BY <2>3, <2>4 DEF RInv
  <1> QED BY <1>3, <1>4, <1>5

(* A runner that gets no job is reaped within two polls of the deadline and one
   more for every poll that failed: confirm_abort holds its verdict over the
   failures.  The invariant counts the polls sent after the deadline. *)
THEOREM WatchdogWedgedReaped == Spec => []WedgedReaped
  <1>1. Init => RInv
    <2> SUFFICES ASSUME Init PROVE RInv
      OBVIOUS
    <2>1. TypeOK
      BY WTypeInit
    <2>2. Cycle \in Nat /\ Poll <= Cycle /\ Blips \in Nat
      BY <2>1, BlipsType
    <2> HIDE DEF Cycle, Blips
    <2> QED
      BY <2>1, <2>2, WatchdogAssumption DEF Init, RInv, Paced, Counted, Paid, Watching
  <1>2. RInv /\ [Next]_vars => RInv'
    <2> SUFFICES ASSUME RInv, [Next]_vars PROVE RInv'
      OBVIOUS
    <2>1. TypeOK'
      BY WTypeStep DEF RInv
    <2>2. CASE UNCHANGED vars
      BY <2>1, <2>2 DEF vars, RInv, Paced, Counted, Paid, Watching, Blips, Cycle
    <2> QED BY <2>1, <2>2, RInvWorld, RInvPoll DEF Next
  <1>3. RInv => WedgedReaped
    <2> SUFFICES ASSUME RInv, Watching
                 PROVE now <= Deadline + (2 + fails) * Cycle + Latency
      BY DEF WedgedReaped
    <2>1. /\ Cycle \in Nat /\ Latency <= Cycle /\ Blips \in Nat
          /\ (2 + fails) * Cycle = Blips + Cycle + Cycle
          /\ now \in Nat /\ sent \in Nat /\ Deadline \in Nat /\ Latency \in Nat
      BY BlipsType, WatchdogAssumption DEF RInv, TypeOK
    <2> HIDE DEF Cycle, Blips
    <2> QED BY <2>1 DEF RInv, Paced, Counted, Paid, Watching
  <1> QED BY <1>1, <1>2, <1>3, PTL DEF Spec
=============================================================================
