----------------------------- MODULE AlertBook -----------------------------
(***************************************************************************)
(* What the alert service promises the user, with no scan, lock or market  *)
(* in sight: a book with a page per alert, of the events the user was told *)
(* about.  Events come in the order of a trade, one mail is under way at a *)
(* time, and each event is mailed once.  A death of the service turns the  *)
(* book back to the copy kept last, and only then is anything told twice.  *)
(***************************************************************************)
EXTENDS Naturals

CONSTANTS Alerts

Target == <<"TARGET_1", "TARGET_2", "TARGET_3">>
Exits == {"STOP_LOSS"} \cup {Target[k] : k \in 1..3}
Events == {"NEW_SIGNAL", "ENTRY"} \cup Exits

VARIABLES
    told,     \* the page of each alert
    kept,     \* the copy that survives a death
    mails,    \* how often each event has reached the user
    flying    \* the mail under way, if any

bookVars == <<told, kept, mails, flying>>

Blank == [i \in Alerts |-> {}]

Init ==
    /\ told = Blank
    /\ kept = Blank
    /\ mails = [i \in Alerts |-> [e \in Events |-> 0]]
    /\ flying = {}

\* What may follow on a page: the signal first, the entry while the trade is open, its
\* stop if nothing ended it, and targets, each beyond those already reached.
Follows(page, e) ==
    \/ page = {} /\ e = "NEW_SIGNAL"
    \/ /\ "NEW_SIGNAL" \in page /\ page \cap Exits = {}
       /\ e \in {"ENTRY", "STOP_LOSS"} \ page
    \/ /\ "NEW_SIGNAL" \in page /\ "STOP_LOSS" \notin page
       /\ \E k \in 1..3 : e = Target[k] /\ \A j \in k..3 : Target[j] \notin page

Tell(i, e) ==
    /\ flying = {}
    /\ Follows(told[i], e)
    /\ told' = [told EXCEPT ![i] = @ \cup {e}]
    /\ flying' = {<<i, e>>}
    /\ UNCHANGED <<kept, mails>>

\* The mail arrives or is lost; it is not sent again.
Land(i, e) ==
    /\ flying = {<<i, e>>}
    /\ mails' \in {mails, [mails EXCEPT ![i][e] = @ + 1]}
    /\ flying' = {}
    /\ UNCHANGED <<told, kept>>

\* A copy is made of a book at rest, or spoilt while it is made.
Keep ==
    /\ flying = {}
    /\ kept' \in {told, Blank}
    /\ UNCHANGED <<told, mails, flying>>

Die ==
    /\ kept' = kept \/ (flying = {} /\ kept' = Blank)
    /\ told' = kept'
    /\ flying' = {}
    /\ UNCHANGED mails

Next ==
    \/ \E i \in Alerts, e \in Events : Tell(i, e) \/ Land(i, e)
    \/ Keep
    \/ Die

Spec == Init /\ [][Next]_bookVars
=============================================================================
