----------------------------- MODULE SpanStore -----------------------------
(***************************************************************************)
(* What a span manager promises the reader of a layer.  Spans go from      *)
(* absent over compressed to uncompressed and never back; a read that      *)
(* succeeds gives the data of a span that is stored uncompressed.  After   *)
(* the store is closed nothing is promised any more.                       *)
(***************************************************************************)
CONSTANTS Spans, Clients

VARIABLES open, stored, answer

vars == <<open, stored, answer>>

Init ==
    /\ open = TRUE
    /\ stored = [s \in Spans |-> "none"]
    /\ answer = [t \in Clients |-> "none"]

Put(s, form) ==
    /\ open
    /\ \/ stored[s] = "none" /\ form \in {"compressed", "uncompressed"}
       \/ stored[s] = "compressed" /\ form = "uncompressed"
    /\ stored' = [stored EXCEPT ![s] = form]
    /\ UNCHANGED <<open, answer>>

Serve(t) ==
    /\ answer[t] = "none"
    /\ \/ ~open
       \/ stored[t[2]] = "uncompressed"
    /\ \E a \in {"data", "wrong"} :
          /\ open => a = "data"
          /\ answer' = [answer EXCEPT ![t] = a]
    /\ UNCHANGED <<open, stored>>

Refuse(t) ==
    /\ answer[t] = "none"
    /\ answer' = [answer EXCEPT ![t] = "error"]
    /\ UNCHANGED <<open, stored>>

\* The answers of one call are taken together.
Take(T) ==
    /\ answer' = [t \in Clients |-> IF t \in T THEN "none" ELSE answer[t]]
    /\ UNCHANGED <<open, stored>>

Close ==
    /\ open
    /\ open' = FALSE
    /\ stored' = [s \in Spans |-> "none"]
    /\ UNCHANGED answer

Next ==
    \/ \E s \in Spans : Put(s, "compressed") \/ Put(s, "uncompressed")
    \/ \E t \in Clients : Serve(t) \/ Refuse(t)
    \/ \E T \in SUBSET Clients : Take(T)
    \/ Close

Spec == Init /\ [][Next]_vars
=============================================================================
