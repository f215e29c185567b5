------------------------------ MODULE TokenCache ------------------------------
(***************************************************************************)
(* Installation tokens (github/installation.rs) and the authenticated      *)
(* requests that use them (GhClient::send_authed in github/jit.rs).        *)
(*                                                                         *)
(* Callers share one cached token.  A mint runs outside the cache's lock,  *)
(* so several may be under way, their answers come in any order and the    *)
(* last one is kept.  GitHub lets a token live for Life and may revoke     *)
(* every token it has issued so far; it answers 401 to a dead one.  Time   *)
(* is relative: what counts is how long a token still lives and how long   *)
(* the cache still believes in it.                                         *)
(***************************************************************************)
EXTENDS Integers, FiniteSets

CONSTANTS
    Callers,    \* tasks that send requests
    Tokens,     \* identities of tokens; an unused one is issued again
    NoToken,
    TTL,        \* TOKEN_TTL
    Margin,     \* REFRESH_MARGIN
    Life,       \* GitHub: a token's life
    Latency,    \* timing: a call is answered, or times out, within it
    MaxFaults   \* bound: revocations, failing calls, sleeps in a call

ASSUME TokenAssumption ==
    /\ {TTL, Margin, Life, Latency, MaxFaults} \subseteq Nat
    /\ Latency <= Margin
    /\ TTL + Latency <= Life
    /\ Margin < TTL
    /\ NoToken \notin Tokens

VARIABLES
    id,       \* the OnceCell of the installation id: "empty", "init", "set"
    cache,    \* the cached token and the time left to its valid_until
    life,     \* life[k]: how long token k is still valid
    revoked,  \* tokens that GitHub has revoked
    pc,       \* where a caller is, see Phases
    tok,      \* the token a caller holds
    left,     \* the time left to the valid_until a caller has computed
    retry,    \* the caller is past its first 401
    wait,     \* how long the call under way may still take
    faults,   \* faults so far
    slept     \* ghost: the host slept while a call was under way

vars == <<id, cache, life, revoked, pc, tok, left, retry, wait, faults, slept>>
github == <<life, revoked, faults, slept>>
-----------------------------------------------------------------------------
\* A caller waits for the installation id, looks it up, reads the cache, mints
\* ("post" until GitHub issues the token, "issued" until the answer is read),
\* stores, sends, invalidates; "refused" ends in a second 401.
Calls == {"lookup", "scoped", "post", "issued", "send", "sent401", "sentOk"}
Local == {"id", "read", "store", "drop"}
Phases == {"idle", "refused"} \cup Local \cup Calls

NoEntry == [tok |-> NoToken, left |-> 0]

TypeOK ==
    /\ id \in {"empty", "init", "set"}
    /\ cache \in [tok: Tokens \cup {NoToken}, left: 0..TTL]
    /\ life \in [Tokens -> 0..Life]
    /\ revoked \subseteq Tokens
    /\ pc \in [Callers -> Phases]
    /\ tok \in [Callers -> Tokens \cup {NoToken}]
    /\ left \in [Callers -> 0..TTL]
    /\ retry \in [Callers -> BOOLEAN]
    /\ wait \in [Callers -> 0..Latency]
    /\ faults \in 0..MaxFaults
    /\ slept \in BOOLEAN

Init ==
    /\ id = "empty"
    /\ cache = NoEntry
    /\ life = [k \in Tokens |-> 0]
    /\ revoked = {}
    /\ pc = [c \in Callers |-> "idle"]
    /\ tok = [c \in Callers |-> NoToken]
    /\ left = [c \in Callers |-> 0]
    /\ retry = [c \in Callers |-> FALSE]
    /\ wait = [c \in Callers |-> 0]
    /\ faults = 0
    /\ slept = FALSE

\* The other tokens are forgotten.
InUse == {cache.tok} \cup {tok[c] : c \in Callers}

Alive(k) == life[k] > 0 /\ k \notin revoked
Goto(c, p) == pc' = [pc EXCEPT ![c] = p]
Call(c, p) == Goto(c, p) /\ wait' = [wait EXCEPT ![c] = Latency]
Hold(c, k) == tok' = [tok EXCEPT ![c] = k]

\* The request ends and its locals go with it.
End(c, p) ==
    /\ Goto(c, p)
    /\ Hold(c, NoToken)
    /\ left' = [left EXCEPT ![c] = 0]
    /\ retry' = [retry EXCEPT ![c] = FALSE]
    /\ wait' = [wait EXCEPT ![c] = 0]
-----------------------------------------------------------------------------
(* Installations::token. *)

\* A request begins: send_authed calls token().
Begin(c) ==
    /\ pc[c] \in {"idle", "refused"}
    /\ Goto(c, "id")
    /\ UNCHANGED <<id, cache, github, tok, left, retry, wait>>

\* get_or_try_init: one caller looks the id up, the others wait for it.
InstallationId(c) ==
    /\ pc[c] = "id"
    /\ \/ /\ id = "set"
          /\ Goto(c, "read")
          /\ UNCHANGED <<id, wait>>
       \/ /\ id = "empty"
          /\ id' = "init"
          /\ Call(c, "lookup")
    /\ UNCHANGED <<cache, github, tok, left, retry>>

IdAnswered(c) ==
    /\ pc[c] = "lookup"
    /\ id' = "set"
    /\ Goto(c, "read")
    /\ UNCHANGED <<cache, github, tok, left, retry, wait>>

\* scoped_token, which the warmer asks for: a mint of its own, and no cache.
ScopedToken(c) ==
    /\ \/ /\ pc[c] = "id" /\ id = "set" /\ ~retry[c]
          /\ Call(c, "scoped")
          /\ UNCHANGED <<tok, left, retry>>
       \/ pc[c] = "scoped" /\ End(c, "idle")
    /\ UNCHANGED <<id, cache, github>>

\* Mutant of IsFresh: served to the end.
IsFreshNoMargin(entry) == entry.tok # NoToken /\ entry.left > 0

\* is_fresh_at: valid_until > now + REFRESH_MARGIN.
IsFresh(entry) == entry.tok # NoToken /\ entry.left > Margin

\* The fast path under the lock, or a mint without it.
ReadCache(c) ==
    /\ pc[c] = "read"
    /\ IF IsFresh(cache)
       THEN Hold(c, cache.tok) /\ Call(c, "send")
       ELSE Hold(c, NoToken) /\ Call(c, "post")
    /\ UNCHANGED <<id, cache, github, left, retry>>

\* GitHub issues a token that is not in use.
Issue(c) ==
    LET k == CHOOSE k \in Tokens : k \notin InUse
    IN  /\ pc[c] = "post"
        /\ Tokens \ InUse # {}
        /\ life' = [life EXCEPT ![k] = Life]
        /\ revoked' = revoked \ {k}
        /\ Hold(c, k)
        /\ Goto(c, "issued")
        /\ UNCHANGED <<id, cache, left, retry, wait, faults, slept>>

\* The answer is read and valid_until computed from the clock.
TokenAnswered(c) ==
    /\ pc[c] = "issued"
    /\ left' = [left EXCEPT ![c] = TTL]
    /\ Goto(c, "store")
    /\ UNCHANGED <<id, cache, github, tok, retry, wait>>

\* The last writer wins the cache; the caller uses the token it has minted.
StoreToken(c) ==
    /\ pc[c] = "store"
    /\ cache' = [tok |-> tok[c], left |-> left[c]]
    /\ left' = [left EXCEPT ![c] = 0]
    /\ Call(c, "send")
    /\ UNCHANGED <<id, github, tok, retry>>
-----------------------------------------------------------------------------
(* send_authed. *)

\* GitHub looks at the token.
Judge(c) ==
    /\ pc[c] = "send"
    /\ Goto(c, IF Alive(tok[c]) THEN "sentOk" ELSE "sent401")
    /\ UNCHANGED <<id, cache, github, tok, left, retry, wait>>

Answered(c) ==
    /\ \/ pc[c] = "sentOk" /\ End(c, "idle")
       \/ pc[c] = "sent401" /\ retry[c] /\ End(c, "refused")
       \/ /\ pc[c] = "sent401" /\ ~retry[c]
          /\ Goto(c, "drop")
          /\ wait' = [wait EXCEPT ![c] = 0]
          /\ UNCHANGED <<tok, left, retry>>
    /\ UNCHANGED <<id, cache, github>>

\* Mutant of Invalidated: whatever is cached goes.
InvalidatedAny(stale) == NoEntry

\* Mutant of Invalidated: the refused token stays.
InvalidatedNot(stale) == cache

\* The cache without the token that was refused.
Invalidated(stale) == IF cache.tok = stale THEN NoEntry ELSE cache

\* invalidate, and token() again.
Invalidate(c) ==
    /\ pc[c] = "drop"
    /\ cache' = Invalidated(tok[c])
    /\ retry' = [retry EXCEPT ![c] = TRUE]
    /\ Hold(c, NoToken)
    /\ Goto(c, "id")
    /\ UNCHANGED <<id, github, left, wait>>
-----------------------------------------------------------------------------
(* The clock, GitHub's revocations and calls that fail. *)
Less(n) == IF n > 0 THEN n - 1 ELSE 0

Passes ==
    /\ cache' = [cache EXCEPT !.left = Less(@)]
    /\ life' = [k \in Tokens |-> IF k \in InUse THEN Less(life[k]) ELSE 0]
    /\ revoked' = revoked \cap InUse
    /\ left' = [c \in Callers |-> Less(left[c])]
    /\ wait' = [c \in Callers |-> Less(wait[c])]
    /\ UNCHANGED <<id, pc, tok, retry>>

\* What runs locally takes no time; a call ends before it has used its time up.
Tick ==
    /\ \A c \in Callers : pc[c] \notin Local \ {"id"}
    /\ \A c \in Callers : pc[c] \in Calls => wait[c] > 0
    /\ Passes
    /\ UNCHANGED <<faults, slept>>

Fault == faults < MaxFaults /\ faults' = faults + 1

\* The host sleeps in a call: the wall clock goes on, the timeout does not.
Sleep ==
    /\ Fault
    /\ \E c \in Callers : pc[c] \in Calls
    /\ slept' = TRUE
    /\ Passes

Revoke ==
    /\ Fault
    /\ revoked' = Tokens \cap InUse
    /\ UNCHANGED <<id, cache, life, pc, tok, left, retry, wait, slept>>

\* A call errs or times out and the request with it.
CallFails(c) ==
    /\ Fault
    /\ pc[c] \in Calls
    /\ id' = IF pc[c] = "lookup" THEN "empty" ELSE id
    /\ End(c, "idle")
    /\ UNCHANGED <<cache, life, revoked, slept>>
-----------------------------------------------------------------------------
CallerStep(c) ==
    \/ Begin(c) \/ InstallationId(c) \/ IdAnswered(c) \/ ScopedToken(c)
    \/ ReadCache(c) \/ Issue(c) \/ TokenAnswered(c) \/ StoreToken(c)
    \/ Judge(c) \/ Answered(c) \/ Invalidate(c)

Next ==
    \/ Tick \/ Sleep \/ Revoke
    \/ \E c \in Callers : CallerStep(c) \/ CallFails(c)

Spec == Init /\ [][Next]_vars

\* The loops of the daemon keep sending requests, and every call ends; time
\* need not pass.
FairSpec == Spec /\ \A c \in Callers : WF_vars(CallerStep(c))
-----------------------------------------------------------------------------
(* Properties. *)

\* The token of a request under way does not expire before GitHub has seen it
\* (REFRESH_MARGIN: "an in-flight request can't outlive the token"), on a host
\* that does not sleep in the middle of a call.
InFlightAlive ==
    ~slept => \A c \in Callers : pc[c] = "send" => life[tok[c]] > 0

\* A 401 never costs a good token: what invalidate takes out of the cache is
\* dead, however many callers were refused at once and whoever has minted anew.
DropsOnlyDead ==
    [][cache.tok # NoToken /\ cache'.tok = NoToken => ~Alive(cache.tok)]_vars

\* A revocation is healed by the next requests themselves, without waiting for
\* the TTL: from some time on no request is refused twice.
Heals == <>[](\A c \in Callers : pc[c] # "refused")
=============================================================================
