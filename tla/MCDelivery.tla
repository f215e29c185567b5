----------------------------- MODULE MCDelivery -----------------------------
(* Instances of Delivery for TLC. *)
EXTENDS Delivery

(* Two spellings of the advertised label, and one that is not advertised. *)
MCLabels == {"nix", "Nix", "gpu"}
MCLower == [l \in MCLabels |-> IF l = "Nix" THEN "nix" ELSE l]

Good == [bad |-> {}, labels |-> {"Nix"}]

(* Entries that fail one check of each group, or checks of two groups. *)
Failing == {{}, {"file type"}, {"size"}, {"hmac"}, {"job id"}, {"not queued"},
            {"event", "job id"}, {"not queued", "action mismatch"}}
MCContents ==
    {[Good EXCEPT !.bad = b] : b \in Failing} \cup
    {[Good EXCEPT !.labels = ls] : ls \in {{}, {"gpu"}, {"nix", "gpu"}}}
=============================================================================
