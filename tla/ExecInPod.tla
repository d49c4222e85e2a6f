------------------------------ MODULE ExecInPod ------------------------------
(***************************************************************************)
(* execInPod of tools/preflight/helper.go and ExecInContainer of            *)
(* tools/preflight/exec.  The caller makes a channel without a buffer,      *)
(* starts a goroutine that streams a command to a pod and answers on that   *)
(* channel, and waits for the answer or a timeout.  A run makes its calls   *)
(* one after another; the goroutine of a call that has timed out is still   *)
(* there while later calls are made.                                        *)
(***************************************************************************)
EXTENDS Integers

CONSTANT NCalls      (* Bound: how many calls the process makes. *)

ASSUME ExecAssumption == NCalls \in Nat

Call == 1..NCalls

VARIABLES
  named,      (* The calls that name both the pod and the container.         *)
  result,     (* What each call has returned.                                *)
  pc,         (* Where the goroutine of each call is.                        *)
  answer,     (* The error, if any, of the answer it has made up.            *)
  command     (* What has become of the command in the container.            *)

vars == <<named, result, pc, answer, command>>

Answer == {"ok", "failed"}

Returned(i) == result[i] \in Answer \cup {"timedOut"}

TypeOK ==
  /\ named \subseteq Call
  /\ result \in [Call -> Answer \cup {"none", "waiting", "timedOut"}]
  /\ pc \in [Call -> {"none", "unnamed", "stream", "answer", "ended"}]
  /\ answer \in [Call -> Answer \cup {"none"}]
  /\ command \in [Call -> {"none", "succeeded", "failed"}]

Init ==
  /\ named \in SUBSET Call
  /\ result = [i \in Call |-> "none"]
  /\ pc = [i \in Call |-> "none"]
  /\ answer = [i \in Call |-> "none"]
  /\ command = [i \in Call |-> "none"]
-----------------------------------------------------------------------------
(* Mutant of Begin: a call does not wait until the last one has returned.   *)
BeginEarly(i) ==
  /\ result[i] = "none"
  /\ \A j \in 1..(i - 1) : result[j] # "none"
  /\ result' = [result EXCEPT ![i] = "waiting"]
  /\ pc' = [pc EXCEPT ![i] = IF i \in named THEN "stream" ELSE "unnamed"]
  /\ UNCHANGED <<named, answer, command>>

(* The DNS call is made first, then those of the restored pods.  Whether an *)
(* error keeps the run from a later call is left open here.                 *)
Begin(i) ==
  /\ result[i] = "none"
  /\ \A j \in 1..(i - 1) : Returned(j)
  /\ result' = [result EXCEPT ![i] = "waiting"]
  /\ pc' = [pc EXCEPT ![i] = IF i \in named THEN "stream" ELSE "unnamed"]
  /\ UNCHANGED <<named, answer, command>>

(* The stream to the container ends.  Its error is nil only if the command  *)
(* has ended well; when it breaks off, the command may have done so too.    *)
StreamEnds(i) ==
  /\ pc[i] = "stream"
  /\ pc' = [pc EXCEPT ![i] = "answer"]
  /\ \E c \in {"none", "succeeded", "failed"}, a \in Answer :
       /\ a = "ok" => c = "succeeded"
       /\ command' = [command EXCEPT ![i] = c]
       /\ answer' = [answer EXCEPT ![i] = a]
  /\ UNCHANGED <<named, result>>

(* Mutant of Senders: one channel is used for all the calls.                *)
OneChannel(i) == 1..i

(* The goroutines that answer on the channel call i receives from.          *)
Senders(i) == {i}

(* An answer is handed over when the sender and the receiver are both there.*)
Receive(i) ==
  /\ result[i] = "waiting"
  /\ \E j \in Senders(i) :
       /\ pc[j] = "answer"
       /\ pc' = [pc EXCEPT ![j] = "ended"]
       /\ result' = [result EXCEPT ![i] = answer[j]]
  /\ UNCHANGED <<named, answer, command>>

(* A call without the name of a pod or container is answered with an error, *)
(* and the goroutine goes on with the stream all the same.                  *)
ReceiveUnnamed(i) ==
  /\ result[i] = "waiting"
  /\ pc[i] = "unnamed"
  /\ pc' = [pc EXCEPT ![i] = "stream"]
  /\ result' = [result EXCEPT ![i] = "failed"]
  /\ UNCHANGED <<named, answer, command>>

(* Mutant of TimesOut: only a goroutine that has nothing more to do is left.*)
TimesOutAtTheEnd(i) ==
  /\ result[i] = "waiting" /\ pc[i] = "answer"
  /\ result' = [result EXCEPT ![i] = "timedOut"]
  /\ UNCHANGED <<named, pc, answer, command>>

(* The timer fires; when an answer is there too, select takes either.       *)
TimesOut(i) ==
  /\ result[i] = "waiting"
  /\ result' = [result EXCEPT ![i] = "timedOut"]
  /\ UNCHANGED <<named, pc, answer, command>>

Next ==
  \E i \in Call : \/ Begin(i) \/ StreamEnds(i) \/ Receive(i)
                  \/ ReceiveUnnamed(i) \/ TimesOut(i)

Spec == Init /\ [][Next]_vars

(* The timer of a call fires, or an answer has been taken before; a stream  *)
(* may never end.                                                           *)
Fairness == \A i \in Call : WF_vars(Receive(i) \/ ReceiveUnnamed(i) \/ TimesOut(i))

FairSpec == Spec /\ Fairness
-----------------------------------------------------------------------------
(* Calls are made in order, each when the one before has returned, so that  *)
(* at most one waits; and no goroutine is at work for a call not made.      *)
InOrder ==
  \A i \in Call : /\ result[i] # "none" => \A j \in 1..(i - 1) : Returned(j)
                  /\ pc[i] = "none" <=> result[i] = "none"

(* What the goroutine of a call is going to say is true, it has not said it *)
(* before, and it asks for names only where one is missing.                 *)
AnswersAreTrue ==
  \A i \in Call : /\ pc[i] = "answer" /\ answer[i] = "ok" => command[i] = "succeeded"
                  /\ pc[i] = "answer" => answer[i] \in Answer
                  /\ pc[i] = "unnamed" => i \notin named /\ result[i] \in {"waiting", "timedOut"}
                  /\ result[i] = "ok" => pc[i] = "ended" /\ command[i] = "succeeded"
                  /\ result[i] = "failed" /\ i \in named => pc[i] = "ended"

(* The inductive invariant of execInPod and the goroutines it starts: one   *)
(* call at a time, and an answer that stands for its own call.              *)
ExecInv == TypeOK /\ InOrder /\ AnswersAreTrue

(* A call that reports success has had its own command succeed, whatever    *)
(* goroutines of earlier calls that timed out still want to answer.         *)
OkMeansExecuted == \A i \in Call : result[i] = "ok" => command[i] = "succeeded"

(* A goroutine outlives its call only if the call has timed out, or if it   *)
(* named no pod or no container.                                            *)
OnlyTimeoutsLeak ==
  \A i \in Call : result[i] \in Answer /\ i \in named => pc[i] = "ended"

(* Every call returns, even when the stream never ends.                     *)
CallReturns == \A i \in Call : result[i] = "waiting" ~> Returned(i)
=============================================================================
