------------------------------ MODULE Admission ------------------------------
(***************************************************************************)
(* What the connect gate promises, without handlers, rows or clocks.  Each  *)
(* connect attempt gets a one-time permit to attest.  The permit is used    *)
(* once or it lapses; only a used permit is evaluated, and evaluated once;  *)
(* the attempt is answered at most once, with its evaluation or by timeout. *)
(***************************************************************************)
CONSTANT Attempts

VARIABLES permit,     \* none, open, claimed or lapsed
          evaluated,  \* the judgements passed on the attempt
          answer      \* what the game server was told

avars == <<permit, evaluated, answer>>

Judgement == {"allow", "deny"}

AdmissionTypeOK ==
    /\ permit \in [Attempts -> {"none", "open", "claimed", "lapsed"}]
    /\ evaluated \in [Attempts -> SUBSET Judgement]
    /\ answer \in [Attempts -> {"none", "allow", "deny", "allow_fail_open"}]

AInit ==
    /\ permit = [s \in Attempts |-> "none"]
    /\ evaluated = [s \in Attempts |-> {}]
    /\ answer = [s \in Attempts |-> "none"]

Issue(s) ==
    /\ permit[s] = "none"
    /\ permit' = [permit EXCEPT ![s] = "open"]
    /\ UNCHANGED <<evaluated, answer>>

Claim(s) ==
    /\ permit[s] = "open"
    /\ permit' = [permit EXCEPT ![s] = "claimed"]
    /\ UNCHANGED <<evaluated, answer>>

(* Time runs out for some open permits at once.                            *)
Lapse(S) ==
    /\ \A s \in S : permit[s] = "open"
    /\ permit' = [s \in Attempts |-> IF s \in S THEN "lapsed" ELSE permit[s]]
    /\ UNCHANGED <<evaluated, answer>>

Evaluate(s, d) ==
    /\ permit[s] = "claimed"
    /\ evaluated[s] = {}
    /\ evaluated' = [evaluated EXCEPT ![s] = {d}]
    /\ UNCHANGED <<permit, answer>>

AnswerEvaluated(s) ==
    /\ answer[s] = "none"
    /\ \E d \in evaluated[s] : answer' = [answer EXCEPT ![s] = d]
    /\ UNCHANGED <<permit, evaluated>>

AnswerByTimeout(s) ==
    /\ permit[s] # "none"
    /\ answer[s] = "none"
    /\ \E a \in {"deny", "allow_fail_open"} : answer' = [answer EXCEPT ![s] = a]
    /\ UNCHANGED <<permit, evaluated>>

ANext ==
    \/ \E s \in Attempts : \/ Issue(s) \/ Claim(s)
                           \/ \E d \in Judgement : Evaluate(s, d)
                           \/ AnswerEvaluated(s) \/ AnswerByTimeout(s)
    \/ \E S \in SUBSET Attempts : Lapse(S)

ASpec == AInit /\ [][ANext]_avars
=============================================================================
