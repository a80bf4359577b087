---------------------------- MODULE EvidenceLog ----------------------------
(***************************************************************************)
(* What the A019 journal promises its callers, with no handle, transaction *)
(* or fault in sight: evidence is stored once and stays, a receipt names   *)
(* stored evidence, and a turn is accepted, crosses to the provider and    *)
(* ends in that order, once each, its end being one piece of evidence.     *)
(***************************************************************************)
EXTENDS Naturals, Sequences

CONSTANTS Turns, Identity(_), Slot(_)

VARIABLES evidence, acked, turn

absVars == <<evidence, acked, turn>>

Init ==
    /\ evidence = <<>>
    /\ acked = {}
    /\ turn = [t \in Turns |-> "none"]

\* One new piece of evidence with an identity and a slot of its own.
Store ==
    LET e == evidence'[Len(evidence')] IN
    /\ Len(evidence') > 0
    /\ evidence' = Append(evidence, e)
    /\ \A i \in DOMAIN evidence :
          /\ Identity(evidence[i]) # Identity(e)
          /\ Slot(evidence[i]) # Slot(e)

\* Receipts are never withdrawn and never ahead of the evidence.
Acknowledge ==
    /\ acked \subseteq acked'
    /\ \A r \in acked' \ acked :
          r.offset \in DOMAIN evidence' /\ r.event = evidence'[r.offset]

Move(t, from, to) == turn[t] = from /\ turn' = [turn EXCEPT ![t] = to]

Submit == Store /\ Acknowledge /\ UNCHANGED turn

Repeat == Acknowledge /\ UNCHANGED <<evidence, turn>>

Accept(t) ==
    /\ Move(t, "none", "accepted")
    /\ Store \/ UNCHANGED evidence
    /\ UNCHANGED acked

Cross(t) == Move(t, "accepted", "crossed") /\ UNCHANGED <<evidence, acked>>

End(t) == Move(t, "crossed", "ended") /\ Store /\ Acknowledge

Next == \/ Submit \/ Repeat
        \/ \E t \in Turns : Accept(t) \/ Cross(t) \/ End(t)

Spec == Init /\ [][Next]_absVars
=============================================================================
