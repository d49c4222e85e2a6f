----------------------------- MODULE ExecProofs -----------------------------
(***************************************************************************)
(* Proofs about ExecInPod, for any number of calls.  ExecInv is inductive;  *)
(* the two properties of the answers follow from it.                        *)
(***************************************************************************)
EXTENDS ExecInPod, TLAPS

(* ExecInv holds when the process starts: no call has been made.            *)
LEMMA ExecInit == Init => ExecInv
  BY DEF Init, ExecInv, TypeOK, InOrder, AnswersAreTrue, Answer

(* Begin keeps ExecInv: all the calls before the new one have returned.     *)
LEMMA BeginKeeps == ASSUME ExecInv, NEW i \in Call, Begin(i) PROVE ExecInv'
<1>1. \A j \in Call : j > i => result[j] = "none"
  <2> SUFFICES ASSUME NEW j \in Call, j > i, result[j] # "none" PROVE FALSE
    OBVIOUS
  <2>1. i \in 1..(j - 1)
    BY ExecAssumption DEF Call
  <2>2. Returned(i)
    BY <2>1 DEF ExecInv, InOrder
  <2> QED BY <2>2 DEF Begin, Returned, Answer
<1>2. TypeOK'
  BY DEF ExecInv, TypeOK, Begin
<1>3. InOrder'
  <2> SUFFICES ASSUME NEW k \in Call
               PROVE  /\ result'[k] # "none" => \A j \in 1..(k - 1) : Returned(j)'
                      /\ pc'[k] = "none" <=> result'[k] = "none"
    BY DEF InOrder
  <2>1. CASE k = i
    BY <2>1, ExecAssumption DEF ExecInv, TypeOK, Begin, Returned, Answer, Call
  <2>2. CASE k # i
    BY <2>2, <1>1, ExecAssumption DEF ExecInv, InOrder, TypeOK, Begin, Returned, Answer, Call
  <2> QED BY <2>1, <2>2
<1>4. AnswersAreTrue'
  BY DEF ExecInv, TypeOK, AnswersAreTrue, InOrder, Begin, Answer
<1> QED BY <1>2, <1>3, <1>4 DEF ExecInv

(* The end of a stream keeps ExecInv: the answer is the command's.          *)
LEMMA StreamEndsKeeps == ASSUME ExecInv, NEW i \in Call, StreamEnds(i) PROVE ExecInv'
<1>1. TypeOK'
  BY DEF ExecInv, TypeOK, StreamEnds, Answer
<1>2. InOrder'
  BY DEF ExecInv, TypeOK, InOrder, StreamEnds, Returned
<1>3. AnswersAreTrue'
  BY DEF ExecInv, TypeOK, AnswersAreTrue, StreamEnds, Answer
<1> QED BY <1>1, <1>2, <1>3 DEF ExecInv

(* What keeps InOrder: a call that waits returns, and its goroutine moves.  *)
LEMMA ReturnKeepsOrder ==
  ASSUME ExecInv, NEW i \in Call, NEW r \in Answer \cup {"timedOut"},
         NEW p \in {"unnamed", "stream", "answer", "ended"},
         result[i] = "waiting",
         result' = [result EXCEPT ![i] = r], pc' = [pc EXCEPT ![i] = p]
  PROVE  InOrder'
<1> SUFFICES ASSUME NEW k \in Call
             PROVE  /\ result'[k] # "none" => \A j \in 1..(k - 1) : Returned(j)'
                    /\ pc'[k] = "none" <=> result'[k] = "none"
  BY DEF InOrder
<1>1. \A j \in Call : Returned(j) => Returned(j)'
  BY DEF ExecInv, TypeOK, Returned, Answer
<1>2. result'[k] # "none" => result[k] # "none"
  BY DEF ExecInv, TypeOK
<1>3. 1..(k - 1) \subseteq Call
  BY ExecAssumption DEF Call
<1>4. pc'[k] = "none" <=> result'[k] = "none"
  BY DEF ExecInv, TypeOK, InOrder, Answer
<1> QED BY <1>1, <1>2, <1>3, <1>4 DEF ExecInv, InOrder

(* An answer that is received keeps ExecInv: it comes from the goroutine of *)
(* the call itself.                                                         *)
LEMMA ReceiveKeeps == ASSUME ExecInv, NEW i \in Call, Receive(i) PROVE ExecInv'
<1>1. /\ result[i] = "waiting" /\ pc[i] = "answer"
      /\ pc' = [pc EXCEPT ![i] = "ended"]
      /\ result' = [result EXCEPT ![i] = answer[i]]
      /\ UNCHANGED <<named, answer, command>>
  BY DEF Receive, Senders
<1>2. answer[i] \in Answer
  BY <1>1 DEF ExecInv, AnswersAreTrue
<1>3. TypeOK'
  BY <1>1, <1>2 DEF ExecInv, TypeOK, Answer
<1>4. InOrder'
  BY <1>1, <1>2, ReturnKeepsOrder
<1>5. AnswersAreTrue'
  BY <1>1, <1>2 DEF ExecInv, TypeOK, AnswersAreTrue, Answer
<1> QED BY <1>3, <1>4, <1>5 DEF ExecInv

(* The answer to a call without names keeps ExecInv: it is a failure.       *)
LEMMA ReceiveUnnamedKeeps ==
  ASSUME ExecInv, NEW i \in Call, ReceiveUnnamed(i) PROVE ExecInv'
<1>1. TypeOK'
  BY DEF ExecInv, TypeOK, ReceiveUnnamed, Answer
<1>2. InOrder'
  BY ReturnKeepsOrder DEF ReceiveUnnamed, Answer
<1>3. AnswersAreTrue'
  BY DEF ExecInv, TypeOK, AnswersAreTrue, ReceiveUnnamed, Answer
<1> QED BY <1>1, <1>2, <1>3 DEF ExecInv

(* A timeout keeps ExecInv: the goroutine is left where it is.              *)
LEMMA TimesOutKeeps == ASSUME ExecInv, NEW i \in Call, TimesOut(i) PROVE ExecInv'
<1>1. TypeOK'
  BY DEF ExecInv, TypeOK, TimesOut
<1>2. InOrder'
  <2>1. pc[i] \in {"unnamed", "stream", "answer", "ended"}
    BY DEF ExecInv, TypeOK, InOrder, TimesOut
  <2>2. pc' = [pc EXCEPT ![i] = pc[i]]
    BY DEF ExecInv, TypeOK, TimesOut
  <2> QED BY <2>1, <2>2, ReturnKeepsOrder DEF TimesOut
<1>3. AnswersAreTrue'
  BY DEF ExecInv, TypeOK, AnswersAreTrue, TimesOut, Answer
<1> QED BY <1>1, <1>2, <1>3 DEF ExecInv

(* ExecInv is an invariant: one call at a time, and answers that stand for  *)
(* the call they are given to.                                              *)
THEOREM ExecInvHolds == Spec => []ExecInv
<1>1. ASSUME ExecInv, [Next]_vars PROVE ExecInv'
  <2>1. CASE Next
    BY <1>1, <2>1, BeginKeeps, StreamEndsKeeps, ReceiveKeeps, ReceiveUnnamedKeeps,
       TimesOutKeeps DEF Next
  <2>2. CASE UNCHANGED vars
    BY <1>1, <2>2 DEF vars, ExecInv, TypeOK, InOrder, AnswersAreTrue, Returned
  <2> QED BY <1>1, <2>1, <2>2
<1> QED BY ExecInit, <1>1, PTL DEF Spec

(* A call that reports success has had its own command succeed, however     *)
(* many goroutines of calls that timed out are still there.                 *)
THEOREM OkMeansExecutedHolds == Spec => []OkMeansExecuted
<1>1. ExecInv => OkMeansExecuted
  BY DEF ExecInv, AnswersAreTrue, OkMeansExecuted
<1> QED BY <1>1, ExecInvHolds, PTL

(* Of the calls that name their pod and container, only those that timed    *)
(* out leave a goroutine behind.                                            *)
THEOREM OnlyTimeoutsLeakHolds == Spec => []OnlyTimeoutsLeak
<1>1. ExecInv => OnlyTimeoutsLeak
  BY DEF ExecInv, AnswersAreTrue, OnlyTimeoutsLeak, Answer
<1> QED BY <1>1, ExecInvHolds, PTL
=============================================================================
