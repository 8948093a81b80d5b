------------------------------ MODULE Approval ------------------------------
(***************************************************************************)
(* What a returned state and the answers beside it mean:                   *)
(* governance/approval.py.                                                 *)
(*                                                                         *)
(* inputResponses is NoAnswers when absent or empty, OtherAnswers when it  *)
(* answers only questions this layer did not ask, and otherwise the answer *)
(* under APPROVAL_KEY.  An answer is its action and what `approve` holds:  *)
(* "absent" stands for a missing content, a content that is no mapping and *)
(* a value that is no Boolean, which `is_affirmative` treats alike.        *)
(***************************************************************************)

CONSTANTS
    NoState,       \* the request carries no requestState
    NoAnswers,     \* the request carries no inputResponses
    OtherAnswers   \* it carries some, none under "approval"

Answer == [action : {"accept", "decline", "cancel"},
           approve : {"true", "false", "absent"}]

\* The one answer that is consent: an explicit accept carrying approve: true.
Yes == [action |-> "accept", approve |-> "true"]

ASSUME ApprovalAssumption ==
    /\ NoAnswers \notin Answer \cup {OtherAnswers}
    /\ OtherAnswers \notin Answer

\* The mutant takes any acceptance for a yes, whatever its content.
MUT_AcceptIsYes(answer) == answer.action = "accept"

IsAffirmative(answer) == answer.action = "accept" /\ answer.approve = "true"

\* The mutant takes a yes that comes without a state.
MUT_StateUnchecked(state, answers) == answers \in Answer /\ IsAffirmative(answers)

\* `check` returns; it raises ApprovalError otherwise.
Approved(state, answers) ==
    /\ state # NoState
    /\ answers \in Answer
    /\ IsAffirmative(answers)
=============================================================================
