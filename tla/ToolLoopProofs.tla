--------------------------- MODULE ToolLoopProofs ---------------------------
(***************************************************************************)
(* For any turns, answers, provider chain and limits: no provider gets the *)
(* same request twice, the journal accepts what is appended, the file is   *)
(* written once for a call, as approved, and no write is committed that    *)
(* the file never had.                                                     *)
(***************************************************************************)
EXTENDS ToolLoop, TLAPS

RunType ==
  [turn : Turn \cup {NoTurn}, at : Ats, iter : 0 .. MaxIterations, prov : 0 .. Providers,
   result : {"none", "done", "denied", "error"}, asks : Nat]

TxType ==
  [last : {"none", "begin", "request-started", "provider-failed", "provider-step",
           "tool-result", "final"},
   hash : Nat, iter : 0 .. MaxIterations, prov : Chain \cup {0},
   calls : Seq(Call), text : BOOLEAN, done : Nat]

OpType == [st : {"none", "prepared", "committed"}, op : Op, prior : Content \cup {Absent}]

Before(p, iter, prov) == p[1] < iter \/ (p[1] = iter /\ p[2] < prov)

\* What was asked precedes what the transaction says comes next.
TxInv(t) ==
  LET x == tx[t] IN
  /\ x.last \in {"none", "begin"} => asked[t] = {}
  /\ x.last \in {"request-started", "provider-failed"} =>
       x.prov \in Chain /\ \A p \in asked[t] : Before(p, x.iter, x.prov + 1)
  /\ x.last \in {"provider-step", "tool-result", "final"} =>
       \A p \in asked[t] : p[1] <= x.iter
  /\ x.last = "provider-step" => x.done = 0
  /\ x.last = "tool-result" => x.iter < MaxIterations
  /\ t \in doubt => x.last = "request-started"

\* Where the run stands agrees with its transaction and its operation.
AtAsk ==
  run.at = "ask" =>
    /\ tx[t0].last \in {"begin", "provider-failed", "tool-result"}
    /\ \A p \in asked[t0] : Before(p, run.iter, run.prov)

AtWire ==
  run.at = "wire" =>
    /\ tx[t0].last = "request-started"
    /\ run.iter = tx[t0].iter /\ run.prov = tx[t0].prov

AtTools ==
  /\ run.at = "step" => tx[t0].last = "provider-step"
  /\ run.at \in {"tool", "check", "rename", "commit-op", "result"} =>
       tx[t0].last \in {"provider-step", "tool-result"} /\ tx[t0].iter < MaxIterations
  /\ run.at \in {"check", "rename", "commit-op", "result"} => Missing(t0)
  /\ run.at = "tool" /\ tx[t0].last = "provider-step" => Missing(t0)

AtFile ==
  /\ run.at \in {"check", "rename", "commit-op"} => op.st = "prepared" /\ op.op = call.op
  /\ run.at \in {"check", "rename"} => call.op \in Content
  /\ run.at = "rename" => writes[t0][call.id] = 0
  /\ run.at = "commit-op" /\ call.op \in Content => <<t0, call.id>> \in held

\* A write that nobody overwrote is the content of the file.
WriteInv ==
  \A t \in Turn, id \in CallId :
    /\ writes[t][id] <= 1
    /\ writes[t][id] = 1 => ops[t][id].st # "none" /\ ops[t][id].op = file

\* A prepared write whose content is the file's is known to have been there.
HeldInv ==
  \A t \in Turn, id \in CallId :
    /\ ops[t][id].st = "prepared" /\ ops[t][id].op = file => <<t, id>> \in held
    /\ ops[t][id].st = "committed" /\ ops[t][id].op \in Content => <<t, id>> \in held

DueInv ==
  /\ \A t \in Turn : entry[t] = "due" => tries[t] < MaxAttempts
  /\ run.at # "idle" => entry[t0] = "due"

\* A turn inside respond has started its inference, and one that may be started
\* has no request in doubt.
CausalInv ==
  /\ \A t \in Turn : causal[t] \in {"received", "rejected"} => tx[t].last # "request-started"
  /\ run.at \notin {"idle", "deliver"} => causal[t0] = "started"
  /\ run.at = "respond" => tx[t0].last # "request-started"

TInv ==
  /\ TypeOK
  /\ \A t \in Turn : TxInv(t)
  /\ AtAsk /\ AtWire /\ AtTools /\ AtFile
  /\ WriteInv /\ HeldInv /\ DueInv /\ CausalInv
  /\ WrittenAsApproved /\ OpenAsksNobody

USE DEF t0, call, op, durable, history

-----------------------------------------------------------------------------
(* Types.                                                                  *)

\* What a running turn stands on has its type.
LEMMA Types ==
  ASSUME TypeOK, run.at # "idle"
  PROVE  t0 \in Turn /\ tx[t0] \in TxType /\ run \in RunType /\ ops[t0] \in [CallId -> OpType]
BY DEF TypeOK, RunType, TxType, OpType

\* The call at hand, its operation record and its approval have their types.
LEMMA CallType ==
  ASSUME TypeOK, run.at # "idle", Missing(t0)
  PROVE  /\ call \in Call /\ call.id \in CallId /\ call.op \in Op
         /\ call = [id |-> call.id, op |-> call.op]
         /\ op \in OpType /\ approval \in {"none", "pending", "approved", "denied"}
<1>1. t0 \in Turn /\ tx[t0].calls \in Seq(Call) /\ tx[t0].done \in Nat
  BY DEF TypeOK
<1>2. tx[t0].done + 1 \in 1 .. Len(tx[t0].calls)
  BY <1>1 DEF Missing
<1>3. call \in Call
  BY <1>1, <1>2
<1>4. call.id \in CallId /\ call.op \in Op /\ call = [id |-> call.id, op |-> call.op]
  BY <1>3 DEF Call
<1> QED
  BY <1>1, <1>3, <1>4 DEF TypeOK, OpType, approval

\* Every event the journal appends leaves a typed transaction.
LEMMA RecordTypes ==
  ASSUME NEW x \in TxType
  PROVE  /\ [x EXCEPT !.last = "provider-failed"] \in TxType
         /\ [x EXCEPT !.last = "final"] \in TxType
         /\ [x EXCEPT !.last = "tool-result", !.done = @ + 1] \in TxType
         /\ \A i \in 0 .. MaxIterations, p \in Chain :
              /\ [x EXCEPT !.last = "provider-failed", !.iter = i, !.prov = p] \in TxType
              /\ [x EXCEPT !.last = "request-started", !.iter = i, !.prov = p] \in TxType
         /\ \A calls \in Seq(Call), text \in BOOLEAN :
              [x EXCEPT !.last = "provider-step", !.calls = calls, !.text = text,
                        !.done = 0] \in TxType
<1>1. [x EXCEPT !.last = "provider-failed"] \in TxType /\ [x EXCEPT !.last = "final"] \in TxType
  BY DEF TxType
<1>2. [x EXCEPT !.last = "tool-result", !.done = @ + 1] \in TxType
  <2>1. x.done + 1 \in Nat
    BY DEF TxType
  <2>2. \A k \in Nat : [x EXCEPT !.last = "tool-result", !.done = k] \in TxType
    BY DEF TxType
  <2> QED
    BY <2>1, <2>2
<1>3. ASSUME NEW i \in 0 .. MaxIterations, NEW p \in Chain
      PROVE  /\ [x EXCEPT !.last = "provider-failed", !.iter = i, !.prov = p] \in TxType
             /\ [x EXCEPT !.last = "request-started", !.iter = i, !.prov = p] \in TxType
  BY DEF TxType
<1>4. ASSUME NEW calls \in Seq(Call), NEW text \in BOOLEAN
      PROVE  [x EXCEPT !.last = "provider-step", !.calls = calls, !.text = text,
                       !.done = 0] \in TxType
  BY DEF TxType
<1> QED
  BY <1>1, <1>2, <1>3, <1>4

\* A request that was asked is a pair of numbers.
LEMMA PositionsAreNumbers ==
  ASSUME TypeOK, NEW t \in Turn
  PROVE  \A p \in asked[t] : p[1] \in Nat /\ p[2] \in Nat
<1>1. asked[t] \in SUBSET Position
  BY DEF TypeOK
<1>2. \A p \in Position : p[1] \in Nat /\ p[2] \in Nat
  BY ToolAssumption DEF Position, Chain, ToolAssumption
<1> QED
  BY <1>1, <1>2

\* What comes before a provider comes before the next one.
LEMMA BeforeNext ==
  ASSUME NEW i \in Nat, NEW v \in Nat, NEW p, p[1] \in Nat, p[2] \in Nat, Before(p, i, v)
  PROVE  Before(p, i, v + 1)
BY DEF Before

\* The transaction that begin writes is typed.
LEMMA NewTxType ==
  ASSUME NEW last \in {"none", "begin"}, NEW hash \in Nat
  PROVE  [NewTx EXCEPT !.last = last, !.hash = hash] \in TxType
<1>1. 0 \in 0 .. MaxIterations /\ <<>> \in Seq(Call)
  BY ToolAssumption DEF ToolAssumption
<1> QED
  BY <1>1 DEF NewTx, TxType

\* The run moves to another place, provider or count of requests.
LEMMA RunTypes ==
  ASSUME NEW r \in RunType
  PROVE  /\ \A p \in 0 .. Providers :
              /\ [r EXCEPT !.prov = p] \in RunType
              /\ \A at \in Ats : [r EXCEPT !.at = at, !.prov = p] \in RunType
              /\ \A at \in Ats, i \in 0 .. MaxIterations :
                   [r EXCEPT !.at = at, !.iter = i, !.prov = p] \in RunType
         /\ \A at \in Ats, n \in Nat : [r EXCEPT !.at = at, !.asks = n] \in RunType
         /\ \A at \in Ats, result \in {"none", "done", "denied", "error"} :
              [r EXCEPT !.at = at, !.result = result] \in RunType
BY DEF RunType

\* The run between two turns is typed and holds no turn.
LEMMA IdleType ==
  ASSUME ToolAssumption
  PROVE  Idle \in RunType /\ Idle.turn = NoTurn /\ Idle.at = "idle"
BY DEF ToolAssumption, Idle, RunType, Ats

-----------------------------------------------------------------------------
(* The shapes of a step.                                                   *)

\* The turn leaves handle.
LEMMA Leaving ==
  ASSUME TInv, ToolAssumption, run.at # "idle",
         run' = Idle,
         UNCHANGED <<tx, ops, approvals, file, context, history>>,
         NEW outcome \in {"due", "parked", "dead", "done"},
         entry' = [entry EXCEPT ![t0] = outcome],
         NEW n \in 0 .. MaxAttempts, tries' = [tries EXCEPT ![t0] = n],
         outcome = "due" => n < MaxAttempts,
         causal' \in [Turn -> {"received", "started", "rejected", "committed"}],
         causal' = causal \/ (run.at \in {"respond", "ask"} /\ causal' = [causal EXCEPT ![t0] = "rejected"]),
         circuit' \in [open : BOOLEAN, keys : SUBSET Turn],
         events' \in Nat
  PROVE  TInv'
<1>1. TypeOK'
  <2>1. run' \in RunType /\ (run'.turn = NoTurn) = (run'.at = "idle")
    BY IdleType
  <2>2. entry' \in [Turn -> {"due", "parked", "dead", "done"}] /\ tries' \in [Turn -> 0 .. MaxAttempts]
    BY DEF TInv, TypeOK
  <2> QED
    BY <2>1, <2>2 DEF TInv, TypeOK, RunType
<1>2. (\A t \in Turn : TxInv(t))' /\ WriteInv' /\ HeldInv' /\ WrittenAsApproved' /\ OpenAsksNobody'
  BY DEF TInv, TxInv, WriteInv, HeldInv, WrittenAsApproved, OpenAsksNobody, Idle
<1>3. AtAsk' /\ AtWire' /\ AtTools' /\ AtFile'
  BY DEF AtAsk, AtWire, AtTools, AtFile, Idle
<1>4. DueInv'
  BY Types DEF TInv, TypeOK, DueInv, Idle
<1>5. CausalInv'
  BY Types DEF TInv, TypeOK, CausalInv, AtAsk, Idle
<1> QED
  BY <1>1, <1>2, <1>3, <1>4, <1>5 DEF TInv

\* A turn that fails leaves handle and is due again, or is dead-lettered.
LEMMA FailingKeepsTInv ==
  ASSUME TInv, ToolAssumption, run.at # "idle", Fails,
         UNCHANGED <<tx, ops, approvals, file, context, history>>,
         causal' \in [Turn -> {"received", "started", "rejected", "committed"}],
         causal' = causal \/ (run.at \in {"respond", "ask"} /\ causal' = [causal EXCEPT ![t0] = "rejected"]),
         circuit' \in [open : BOOLEAN, keys : SUBSET Turn],
         events' \in Nat
  PROVE  TInv'
<1> DEFINE n == tries[t0] + 1
           outcome == IF n < MaxAttempts THEN "due" ELSE "dead"
<1>1. n \in 0 .. MaxAttempts
  <2>1. t0 \in Turn /\ entry[t0] = "due"
    BY Types DEF TInv, DueInv
  <2>2. tries[t0] \in 0 .. MaxAttempts /\ tries[t0] < MaxAttempts
    BY <2>1 DEF TInv, TypeOK, DueInv
  <2> QED
    BY <2>2 DEF ToolAssumption
<1>2. entry' = [entry EXCEPT ![t0] = outcome] /\ run' = Idle
  BY DEF Fails, Leaves
<1>3. tries' = [tries EXCEPT ![t0] = n]
  BY Types DEF Fails, TInv, TypeOK
<1>4. outcome \in {"due", "parked", "dead", "done"} /\ (outcome = "due" => n < MaxAttempts)
  OBVIOUS
<1> HIDE DEF n, outcome
<1> QED
  BY <1>1, <1>2, <1>3, <1>4, Leaving

\* A turn that is done, due or waits for the operator leaves handle.
LEMMA ParkingKeepsTInv ==
  ASSUME TInv, ToolAssumption, run.at # "idle", UNCHANGED tries,
         NEW outcome \in {"due", "parked", "done"}, Leaves(outcome),
         UNCHANGED <<tx, ops, approvals, file, context, history>>,
         causal' \in [Turn -> {"received", "started", "rejected", "committed"}],
         causal' = causal \/ (run.at \in {"respond", "ask"} /\ causal' = [causal EXCEPT ![t0] = "rejected"]),
         circuit' \in [open : BOOLEAN, keys : SUBSET Turn],
         events' \in Nat
  PROVE  TInv'
<1>1. tries[t0] \in 0 .. MaxAttempts /\ tries' = [tries EXCEPT ![t0] = tries[t0]]
  BY Types DEF TInv, TypeOK
<1>2. tries[t0] < MaxAttempts
  BY Types DEF TInv, DueInv
<1>3. entry' = [entry EXCEPT ![t0] = outcome] /\ run' = Idle
  BY DEF Leaves
<1> QED
  BY <1>1, <1>2, <1>3, Leaving

\* Only the place of the run changes.
LEMMA Moving ==
  ASSUME TInv, run.at # "idle", run' \in RunType, run'.turn = t0, run'.at # "idle",
         UNCHANGED <<entry, tries, tx, ops, approvals, file, history>>,
         causal' \in [Turn -> {"received", "started", "rejected", "committed"}],
         circuit' \in [open : BOOLEAN, keys : SUBSET Turn],
         context' \in Nat, events' \in Nat,
         AtAsk', AtWire', AtTools', AtFile', OpenAsksNobody', CausalInv'
  PROVE  TInv'
<1>1. TypeOK'
  BY Types DEF TInv, TypeOK, RunType
<1>2. (\A t \in Turn : TxInv(t))' /\ WriteInv' /\ HeldInv' /\ WrittenAsApproved' /\ DueInv'
  BY DEF TInv, TxInv, WriteInv, HeldInv, WrittenAsApproved, DueInv
<1> QED
  BY <1>1, <1>2 DEF TInv

\* An event is appended to the transaction of the turn.
LEMMA Recording ==
  ASSUME TInv, run.at # "idle", run' \in RunType, run'.turn = t0,
         run'.at \in {"ask", "wire", "step", "tool", "final"},
         NEW x \in TxType, tx' = [tx EXCEPT ![t0] = x],
         UNCHANGED <<entry, tries, causal, ops, approvals, circuit, file, context, writes,
                     held, revived, events>>,
         NEW now \in SUBSET Position, asked' = [asked EXCEPT ![t0] = now],
         doubt' \subseteq Turn, \A t \in Turn \ {t0} : t \in doubt' => t \in doubt,
         TxInv(t0)', AtAsk', AtWire', AtTools', ~circuit.open, causal[t0] = "started"
  PROVE  TInv'
<1>1. TypeOK'
  BY Types DEF TInv, TypeOK, RunType, TxType
<1>2. (\A t \in Turn : TxInv(t))'
  <2> SUFFICES ASSUME NEW t \in Turn PROVE TxInv(t)'
    OBVIOUS
  <2>1. CASE t = t0
    <3>1. t0' = t0
      BY Types
    <3> QED
      BY <2>1, <3>1
  <2>2. CASE t # t0
    BY <2>2, Types DEF TInv, TypeOK, TxInv
  <2> QED
    BY <2>1, <2>2
<1>3. AtFile'
  BY DEF AtFile
<1>4. WriteInv' /\ HeldInv' /\ WrittenAsApproved' /\ DueInv' /\ OpenAsksNobody'
  BY DEF TInv, WriteInv, HeldInv, WrittenAsApproved, DueInv, OpenAsksNobody
<1>5. CausalInv'
  <2>1. \A t \in Turn : t # t0 => tx'[t] = tx[t]
    BY DEF TInv, TypeOK
  <2> QED
    BY <2>1, Types DEF TInv, CausalInv
<1> QED
  BY <1>1, <1>2, <1>3, <1>4, <1>5 DEF TInv

-----------------------------------------------------------------------------
(* One lemma per group of actions.                                         *)

\* The open circuit keeps a turn from respond.
LEMMA RefusingKeepsTInv ==
  ASSUME TInv, ToolAssumption, NEW t \in Turn, Refuses(t)
  PROVE  TInv'
<1>1. TypeOK' /\ DueInv' /\ CausalInv'
  <2>1. run = Idle /\ run' = Idle /\ UNCHANGED <<tries, durable, history, events>>
    BY DEF Refuses
  <2>2. \E outcome \in {"parked", "done"} : entry' = [entry EXCEPT ![t] = outcome]
    BY DEF Refuses
  <2>6. run' = run /\ entry' \in [Turn -> {"due", "parked", "dead", "done"}]
    BY <2>1, <2>2 DEF TInv, TypeOK
  <2>3. TypeOK'
    BY <2>1, <2>6 DEF TInv, TypeOK
  <2>4. DueInv'
    BY <2>1, <2>2 DEF TInv, TypeOK, DueInv, Idle
  <2>5. CausalInv'
    BY <2>1 DEF TInv, CausalInv, Idle
  <2> QED
    BY <2>3, <2>4, <2>5
<1>2. run = Idle /\ run' = Idle
  BY DEF Refuses
<1>3. AtAsk' /\ AtWire' /\ AtTools' /\ AtFile' /\ OpenAsksNobody'
  BY <1>2 DEF AtAsk, AtWire, AtTools, AtFile, OpenAsksNobody, Idle
<1>4. (\A v \in Turn : TxInv(v))' /\ WriteInv' /\ HeldInv' /\ WrittenAsApproved'
  BY DEF TInv, TxInv, WriteInv, HeldInv, WrittenAsApproved, Refuses
<1> QED
  BY <1>1, <1>3, <1>4 DEF TInv

\* A due turn enters respond.
LEMMA StartingKeepsTInv ==
  ASSUME TInv, ToolAssumption, NEW t \in Turn, Starts(t)
  PROVE  TInv'
<1>1. run' \in RunType /\ run'.turn = t /\ run'.at = "respond" /\ t # NoTurn
  BY IdleType DEF Starts, RunType, Ats, Idle, ToolAssumption
<1>2. TypeOK'
  BY <1>1 DEF TInv, TypeOK, RunType, Starts
<1>3. DueInv' /\ CausalInv'
  BY <1>1 DEF TInv, TypeOK, DueInv, CausalInv, Starts, CanResume
<1> QED
  BY <1>1, <1>2, <1>3 DEF TInv, TxInv, AtAsk, AtWire, AtTools, AtFile, WriteInv, HeldInv,
       WrittenAsApproved, OpenAsksNobody, Starts

\* What leaves the turn and changes nothing it stands for.
LEMMA EndingKeepsTInv ==
  ASSUME TInv, ToolAssumption,
         \/ CircuitRefuses \/ Mismatches \/ AnswerIsLost \/ AnswerIsMalformed \/ AllFailed
         \/ AnswerIsEmpty \/ ToolLimit \/ Delivers \/ AppendThrows
  PROVE  TInv'
<1>1. CASE CircuitRefuses
  <2>1. /\ run.at \in {"respond", "ask"}
        /\ causal' \in [Turn -> {"received", "started", "rejected", "committed"}]
    BY <1>1 DEF CircuitRefuses, TInv, TypeOK
  <2> QED
    BY <1>1, <2>1, ParkingKeepsTInv DEF CircuitRefuses, Parks, TInv, TypeOK
<1>2. CASE Mismatches \/ AnswerIsMalformed \/ AnswerIsEmpty \/ ToolLimit \/ AppendThrows
  <2>1. run.at # "idle" /\ Fails /\ UNCHANGED durable /\ UNCHANGED history /\ events' \in Nat
    BY <1>2 DEF Mismatches, AnswerIsMalformed, AnswerIsEmpty, ToolLimit, AppendThrows, Begun,
         AtStep, Counts, TInv, TypeOK
  <2> QED
    BY <2>1, FailingKeepsTInv DEF TInv, TypeOK
<1>3. CASE AnswerIsLost \/ Delivers
  <2>1. run.at # "idle" /\ (Leaves("parked") \/ Leaves("done")) /\ UNCHANGED tries
        /\ UNCHANGED durable /\ UNCHANGED history /\ UNCHANGED events
    BY <1>3 DEF AnswerIsLost, Delivers, Parks
  <2> QED
    BY <2>1, ParkingKeepsTInv DEF TInv, TypeOK
<1>4. CASE AllFailed
  <2>1. /\ run.at \in {"respond", "ask"} /\ (Fails \/ (Leaves("parked") /\ UNCHANGED tries))
        /\ UNCHANGED <<tx, ops, approvals, file, context, history, events>>
    BY <1>4 DEF AllFailed, Parks
  <2>2. /\ causal' \in [Turn -> {"received", "started", "rejected", "committed"}]
        /\ causal' = [causal EXCEPT ![t0] = "rejected"]
    BY <1>4 DEF AllFailed, TInv, TypeOK
  <2>3. circuit' \in [open : BOOLEAN, keys : SUBSET Turn]
    <3>1. t0 \in Turn /\ circuit.keys \cup {t0} \in SUBSET Turn
      BY <2>1, Types DEF TInv, TypeOK
    <3>2. (circuit.open \/ Cardinality(circuit.keys \cup {t0}) >= Threshold) \in BOOLEAN
      OBVIOUS
    <3> QED
      BY <1>4, <3>1, <3>2 DEF AllFailed
  <2>4. events' \in Nat
    BY <2>1 DEF TInv, TypeOK
  <2> QED
    BY <2>1, <2>2, <2>3, <2>4, FailingKeepsTInv, ParkingKeepsTInv
<1> QED
  BY <1>1, <1>2, <1>3, <1>4

\* The process dies: the run is gone, what was appended stays.
LEMMA CrashKeepsTInv ==
  ASSUME TInv, ToolAssumption, Crash
  PROVE  TInv'
<1>1. run' = Idle /\ run'.at = "idle" /\ events' \in Nat
  BY IdleType DEF Crash, Counts, TInv, TypeOK
<1>2. TypeOK'
  BY <1>1, IdleType DEF TInv, TypeOK, RunType, Crash
<1> QED
  BY <1>1, <1>2 DEF TInv, TxInv, AtAsk, AtWire, AtTools, AtFile, WriteInv, HeldInv, DueInv,
       CausalInv, WrittenAsApproved, OpenAsksNobody, Crash

\* respond resumes the transaction an earlier attempt left.
LEMMA ResumingKeepsTInv ==
  ASSUME TInv, ToolAssumption, Resumes
  PROVE  TInv'
<1>1. /\ run.at = "respond" /\ t0 \in Turn /\ tx[t0] \in TxType /\ run \in RunType
      /\ tx[t0].last # "none" /\ ~circuit.open
      /\ UNCHANGED <<entry, tries, durable, history, events>>
  BY Types DEF Resumes, ResumesAt, Begun, TInv
<1>2. TxInv(t0)
  BY <1>1 DEF TInv
<1> DEFINE at == CASE tx[t0].last = "final" -> "final"
                   [] tx[t0].last = "provider-step" -> "step"
                   [] tx[t0].last = "tool-result" -> "tool"
                   [] OTHER -> "ask"
           prov == IF tx[t0].last = "provider-failed" THEN tx[t0].prov + 1 ELSE 0
<1>3. run' = [run EXCEPT !.at = at, !.iter = tx[t0].iter, !.prov = prov]
  BY DEF Resumes, ResumesAt
<1>4. /\ at \in {"final", "step", "tool", "ask"}
      /\ at = "step" => tx[t0].last = "provider-step"
      /\ at = "tool" => tx[t0].last = "tool-result"
      /\ at = "ask" => tx[t0].last \in {"begin", "provider-failed"}
  BY <1>1 DEF TxType, TInv, CausalInv
<1>5. prov \in 0 .. Providers
  BY <1>1, <1>2 DEF TxInv, Chain, ToolAssumption
<1> HIDE DEF at, prov
<1>6. run' \in RunType /\ run'.turn = t0 /\ run'.at = at /\ run'.iter = tx[t0].iter /\ run'.prov = prov
  BY <1>1, <1>3, <1>4, <1>5 DEF RunType, TxType, Ats
<1>7. AtAsk'
  BY <1>1, <1>2, <1>4, <1>6 DEF AtAsk, TxInv, prov
<1> QED
  BY <1>1, <1>4, <1>6, <1>7, <1>2, Moving
     DEF AtWire, AtTools, AtFile, OpenAsksNobody, TxInv, CausalInv, TInv, TypeOK

\* respond begins a transaction.
LEMMA BeginningKeepsTInv ==
  ASSUME TInv, ToolAssumption, Begins
  PROVE  TInv'
<1> DEFINE x == [NewTx EXCEPT !.last = "begin", !.hash = context]
<1>1. /\ run.at = "respond" /\ t0 \in Turn /\ run \in RunType /\ ~circuit.open
      /\ tx[t0].last = "none" /\ tx' = [tx EXCEPT ![t0] = x]
      /\ run' = [run EXCEPT !.at = "ask"]
      /\ UNCHANGED <<entry, tries, causal, ops, approvals, circuit, file, context, history, events>>
  BY Types DEF Begins, Records, GoesTo, TInv
<1>2. x \in TxType /\ x.last = "begin"
  BY NewTxType DEF TInv, TypeOK, NewTx
<1> HIDE DEF x
<1>3. run' \in RunType /\ run'.turn = t0 /\ run'.at = "ask" /\ tx'[t0] = x
  BY <1>1 DEF RunType, Ats, TInv, TypeOK
<1>4. asked[t0] = {} /\ t0 \notin doubt
  BY <1>1 DEF TInv, TxInv
<1>5. TxInv(t0)' /\ AtAsk' /\ AtWire' /\ AtTools'
  BY <1>1, <1>2, <1>3, <1>4 DEF TxInv, AtAsk, AtWire, AtTools
<1>6. asked' = [asked EXCEPT ![t0] = asked[t0]] /\ asked[t0] \in SUBSET Position
  BY <1>1 DEF TInv, TypeOK
<1> QED
  BY <1>1, <1>2, <1>3, <1>5, <1>6, Recording DEF TInv, TypeOK, CausalInv

\* A provider that is not asked is recorded as failed.
LEMMA SkippingKeepsTInv ==
  ASSUME TInv, ToolAssumption, Skips
  PROVE  TInv'
<1> DEFINE x == [tx[t0] EXCEPT !.last = "provider-failed", !.iter = run.iter, !.prov = run.prov]
<1>1. /\ run.at = "ask" /\ run.prov < Providers /\ t0 \in Turn /\ run \in RunType
      /\ tx[t0] \in TxType /\ ~circuit.open
      /\ tx' = [tx EXCEPT ![t0] = x] /\ run' = [run EXCEPT !.prov = @ + 1]
      /\ UNCHANGED <<entry, tries, causal, ops, approvals, circuit, file, context, history, events>>
  BY Types DEF Skips, Asking, Records, TInv, OpenAsksNobody
<1>2. run.prov \in Chain /\ run.iter \in 0 .. MaxIterations
  BY <1>1 DEF RunType, Chain, ToolAssumption
<1>3. x \in TxType /\ x.last = "provider-failed" /\ x.iter = run.iter /\ x.prov = run.prov
  <2>1. x \in TxType
    BY <1>1, <1>2, RecordTypes
  <2>2. x.last = "provider-failed" /\ x.iter = run.iter /\ x.prov = run.prov
    BY <1>1, <1>2 DEF TxType
  <2> QED
    BY <2>1, <2>2
<1> HIDE DEF x
<1>4. /\ run' \in RunType /\ run'.turn = t0 /\ run'.at = "ask" /\ tx'[t0] = x
      /\ run'.iter = run.iter /\ run'.prov = run.prov + 1
  <2>1. run.prov + 1 \in 0 .. Providers
    BY <1>2 DEF Chain, ToolAssumption
  <2>2. run' \in RunType
    BY <1>1, <2>1, RunTypes
  <2> QED
    BY <1>1, <2>2 DEF RunType, TInv, TypeOK
<1>5. \A p \in asked[t0] : Before(p, run.iter, run.prov)
  BY <1>1 DEF TInv, AtAsk
<1>6. \A p \in asked[t0] : p[1] \in Nat /\ p[2] \in Nat
  BY <1>1, PositionsAreNumbers DEF TInv
<1>7. \A p \in asked[t0] : Before(p, run.iter, run.prov + 1)
  <2>1. run.iter \in Nat /\ run.prov \in Nat
    BY <1>2 DEF Chain, ToolAssumption
  <2> QED
    BY <1>5, <1>6, <2>1, BeforeNext
<1>8. t0 \notin doubt
  BY <1>1 DEF TInv, TxInv, AtAsk
<1>9. TxInv(t0)' /\ AtAsk' /\ AtWire' /\ AtTools'
  BY <1>1, <1>2, <1>3, <1>4, <1>7, <1>8 DEF TxInv, AtAsk, AtWire, AtTools
<1>10. asked' = [asked EXCEPT ![t0] = asked[t0]] /\ asked[t0] \in SUBSET Position
  BY <1>1 DEF TInv, TypeOK
<1> QED
  BY <1>1, <1>3, <1>4, <1>9, <1>10, Recording DEF TInv, TypeOK, CausalInv

\* request-started is appended before the request goes out.
LEMMA AskingKeepsTInv ==
  ASSUME TInv, ToolAssumption, Asks
  PROVE  TInv'
<1> DEFINE x == [tx[t0] EXCEPT !.last = "request-started", !.iter = run.iter, !.prov = run.prov]
           now == asked[t0] \cup {<<run.iter, run.prov>>}
<1>1. /\ run.at = "ask" /\ run.prov < Providers /\ t0 \in Turn /\ run \in RunType
      /\ tx[t0] \in TxType /\ ~circuit.open
      /\ tx' = [tx EXCEPT ![t0] = x] /\ run' = [run EXCEPT !.at = "wire", !.asks = @ + 1]
      /\ asked' = [asked EXCEPT ![t0] = now] /\ doubt' = doubt \cup {t0}
      /\ UNCHANGED <<entry, tries, causal, ops, approvals, circuit, file, context, writes,
                     held, revived, events>>
  BY Types DEF Asks, Asking, Records, TInv, OpenAsksNobody
<1>2. run.prov \in Chain /\ run.iter \in 0 .. MaxIterations
  BY <1>1 DEF RunType, Chain, ToolAssumption
<1>3. x \in TxType /\ x.last = "request-started" /\ x.iter = run.iter /\ x.prov = run.prov
  <2>1. x \in TxType
    BY <1>1, <1>2, RecordTypes
  <2>2. x.last = "request-started" /\ x.iter = run.iter /\ x.prov = run.prov
    BY <1>1, <1>2 DEF TxType
  <2> QED
    BY <2>1, <2>2
<1>4. now \in SUBSET Position
  BY <1>1, <1>2 DEF TInv, TypeOK, Position
<1>5. \A p \in asked[t0] : p[1] \in Nat /\ p[2] \in Nat
  BY <1>1, PositionsAreNumbers DEF TInv
<1>6. \A p \in now : Before(p, run.iter, run.prov + 1)
  <2>1. run.iter \in Nat /\ run.prov \in Nat
    BY <1>2 DEF Chain, ToolAssumption
  <2>2. \A p \in asked[t0] : Before(p, run.iter, run.prov)
    BY <1>1 DEF TInv, AtAsk
  <2>3. \A p \in asked[t0] : Before(p, run.iter, run.prov + 1)
    BY <1>5, <2>1, <2>2, BeforeNext
  <2>4. Before(<<run.iter, run.prov>>, run.iter, run.prov + 1)
    BY <2>1 DEF Before
  <2> QED
    BY <2>3, <2>4
<1> HIDE DEF x, now
<1>7. /\ run' \in RunType /\ run'.turn = t0 /\ run'.at = "wire" /\ tx'[t0] = x
      /\ run'.iter = run.iter /\ run'.prov = run.prov /\ asked'[t0] = now
  <2>1. run.asks + 1 \in Nat /\ "wire" \in Ats
    BY <1>1 DEF RunType, Ats
  <2>2. run' \in RunType
    BY <1>1, <2>1, RunTypes
  <2> QED
    BY <1>1, <2>2 DEF RunType, TInv, TypeOK
<1>8. TxInv(t0)' /\ AtAsk' /\ AtWire' /\ AtTools'
  BY <1>1, <1>2, <1>3, <1>6, <1>7 DEF TxInv, AtAsk, AtWire, AtTools
<1> QED
  BY <1>1, <1>3, <1>4, <1>7, <1>8, Recording DEF TInv, TypeOK, CausalInv

\* The answer, or the failure, of a provider is recorded.
LEMMA AnsweringKeepsTInv ==
  ASSUME TInv, ToolAssumption, ProviderFails \/ ProviderAnswers
  PROVE  TInv'
<1>1. /\ run.at = "wire" /\ t0 \in Turn /\ run \in RunType /\ tx[t0] \in TxType /\ ~circuit.open
      /\ doubt' = doubt \ {t0}
      /\ UNCHANGED <<entry, tries, causal, ops, approvals, circuit, file, context, asked, writes,
                     held, revived, events>>
  BY Types DEF ProviderFails, ProviderAnswers, GoesTo, TInv, OpenAsksNobody
<1>2. /\ tx[t0].last = "request-started" /\ run.iter = tx[t0].iter /\ run.prov = tx[t0].prov
      /\ tx[t0].prov \in Chain /\ \A p \in asked[t0] : Before(p, tx[t0].iter, tx[t0].prov + 1)
  BY <1>1 DEF TInv, AtWire, TxInv
<1>3. asked' = [asked EXCEPT ![t0] = asked[t0]] /\ asked[t0] \in SUBSET Position
  BY <1>1 DEF TInv, TypeOK
<1>4. CASE ProviderFails
  <2> DEFINE x == [tx[t0] EXCEPT !.last = "provider-failed"]
  <2>1. tx' = [tx EXCEPT ![t0] = x] /\ run' = [run EXCEPT !.at = "ask", !.prov = @ + 1]
    BY <1>4 DEF ProviderFails, Records
  <2>2. x \in TxType /\ x.last = "provider-failed" /\ x.iter = tx[t0].iter /\ x.prov = tx[t0].prov
    <3>1. x \in TxType
      BY <1>1, RecordTypes
    <3>2. x.last = "provider-failed" /\ x.iter = tx[t0].iter /\ x.prov = tx[t0].prov
      BY <1>1 DEF TxType
    <3> QED
      BY <3>1, <3>2
  <2> HIDE DEF x
  <2>3. run.prov + 1 \in 0 .. Providers /\ "ask" \in Ats
    <3>1. run.prov \in Chain
      BY <1>2
    <3> QED
      BY <3>1 DEF Chain, Ats, ToolAssumption
  <2>4. run' \in RunType
    BY <1>1, <2>1, <2>3, RunTypes
  <2>5. /\ run'.turn = t0 /\ run'.at = "ask" /\ tx'[t0] = x
        /\ run'.iter = run.iter /\ run'.prov = run.prov + 1
    BY <1>1, <2>1 DEF RunType, TInv, TypeOK
  <2>6. TxInv(t0)' /\ AtAsk' /\ AtWire' /\ AtTools'
    BY <1>1, <1>2, <2>2, <2>4, <2>5 DEF TxInv, AtAsk, AtWire, AtTools
  <2> QED
    BY <1>1, <1>3, <2>1, <2>2, <2>4, <2>5, <2>6, Recording DEF TInv, TypeOK, CausalInv
<1>5. CASE ProviderAnswers
  <2>1. PICK answer \in Answers[t0] :
          tx' = [tx EXCEPT ![t0] = [tx[t0] EXCEPT !.last = "provider-step",
                    !.calls = answer.calls, !.text = answer.text, !.done = 0]]
    BY <1>5 DEF ProviderAnswers, Records
  <2> DEFINE x == [tx[t0] EXCEPT !.last = "provider-step", !.calls = answer.calls,
                                 !.text = answer.text, !.done = 0]
  <2>2. answer.calls \in Seq(Call) /\ answer.text \in BOOLEAN
    BY <1>1 DEF ToolAssumption
  <2>3. x \in TxType /\ x.last = "provider-step" /\ x.iter = tx[t0].iter /\ x.done = 0
    <3>1. x \in TxType
      BY <1>1, <2>2, RecordTypes
    <3>2. x.last = "provider-step" /\ x.iter = tx[t0].iter /\ x.done = 0
      BY <1>1, <2>2 DEF TxType
    <3> QED
      BY <3>1, <3>2
  <2> HIDE DEF x
  <2>4. run' = [run EXCEPT !.at = "step"] /\ tx' = [tx EXCEPT ![t0] = x]
    BY <1>5, <2>1 DEF ProviderAnswers, GoesTo, x
  <2>5. run' \in RunType /\ run'.turn = t0 /\ run'.at = "step" /\ tx'[t0] = x
    BY <1>1, <2>4 DEF RunType, TInv, TypeOK, Ats
  <2>6. \A p \in asked[t0] : p[1] <= tx[t0].iter
    <3>1. \A p \in asked[t0] : p[1] \in Nat /\ tx[t0].iter \in Nat
      BY <1>1 DEF TInv, TypeOK, Position, ToolAssumption
    <3> QED
      BY <1>2, <3>1 DEF Before
  <2>7. TxInv(t0)' /\ AtAsk' /\ AtWire' /\ AtTools'
    BY <1>1, <2>3, <2>5, <2>6 DEF TxInv, AtAsk, AtWire, AtTools
  <2> QED
    BY <1>1, <1>3, <2>3, <2>4, <2>5, <2>7, Recording DEF TInv, TypeOK, CausalInv
<1> QED
  BY <1>4, <1>5

\* The text of the last answer is recorded as final.
LEMMA FinalKeepsTInv ==
  ASSUME TInv, ToolAssumption, Finals
  PROVE  TInv'
<1> DEFINE x == [tx[t0] EXCEPT !.last = "final"]
<1>1. /\ run.at = "step" /\ t0 \in Turn /\ run \in RunType /\ tx[t0] \in TxType /\ ~circuit.open
      /\ tx' = [tx EXCEPT ![t0] = x] /\ run' = [run EXCEPT !.at = "final"]
      /\ UNCHANGED <<entry, tries, causal, ops, approvals, circuit, file, context, history, events>>
  BY Types DEF Finals, AtStep, Records, GoesTo, TInv, OpenAsksNobody
<1>2. x \in TxType /\ x.last = "final" /\ x.iter = tx[t0].iter
  <2>1. x \in TxType
    BY <1>1, RecordTypes
  <2>2. x.last = "final" /\ x.iter = tx[t0].iter
    BY <1>1 DEF TxType
  <2> QED
    BY <2>1, <2>2
<1> HIDE DEF x
<1>3. run' \in RunType /\ run'.turn = t0 /\ run'.at = "final" /\ tx'[t0] = x
  BY <1>1 DEF RunType, TInv, TypeOK, Ats
<1>4. tx[t0].last = "provider-step" /\ t0 \notin doubt
  BY <1>1 DEF TInv, AtTools, TxInv
<1>5. TxInv(t0)' /\ AtAsk' /\ AtWire' /\ AtTools'
  BY <1>1, <1>2, <1>3, <1>4 DEF TInv, TxInv, AtAsk, AtWire, AtTools
<1>6. asked' = [asked EXCEPT ![t0] = asked[t0]] /\ asked[t0] \in SUBSET Position
  BY <1>1 DEF TInv, TypeOK
<1> QED
  BY <1>1, <1>2, <1>3, <1>5, <1>6, Recording DEF TInv, TypeOK, CausalInv

\* The result of a call is recorded in the transaction.
LEMMA RecordingResultKeepsTInv ==
  ASSUME TInv, ToolAssumption, RecordsResult
  PROVE  TInv'
<1> DEFINE x == [tx[t0] EXCEPT !.last = "tool-result", !.done = @ + 1]
<1>1. /\ run.at = "result" /\ t0 \in Turn /\ run \in RunType /\ tx[t0] \in TxType /\ ~circuit.open
      /\ tx' = [tx EXCEPT ![t0] = x] /\ run' = [run EXCEPT !.at = "tool", !.result = "none"]
      /\ UNCHANGED <<entry, tries, causal, ops, approvals, circuit, file, context, history, events>>
  BY Types DEF RecordsResult, Records, TInv, OpenAsksNobody
<1>2. x \in TxType /\ x.last = "tool-result" /\ x.iter = tx[t0].iter
  <2>1. x \in TxType
    BY <1>1, RecordTypes
  <2>2. x.last = "tool-result" /\ x.iter = tx[t0].iter
    BY <1>1 DEF TxType
  <2> QED
    BY <2>1, <2>2
<1> HIDE DEF x
<1>3. run' \in RunType /\ run'.turn = t0 /\ run'.at = "tool" /\ tx'[t0] = x
  BY <1>1 DEF RunType, TInv, TypeOK, Ats
<1>4. /\ tx[t0].last \in {"provider-step", "tool-result"} /\ tx[t0].iter < MaxIterations
      /\ t0 \notin doubt
  BY <1>1 DEF TInv, AtTools, TxInv
<1>5. TxInv(t0)' /\ AtAsk' /\ AtWire' /\ AtTools'
  BY <1>1, <1>2, <1>3, <1>4 DEF TInv, TxInv, AtAsk, AtWire, AtTools
<1>6. asked' = [asked EXCEPT ![t0] = asked[t0]] /\ asked[t0] \in SUBSET Position
  BY <1>1 DEF TInv, TypeOK
<1> QED
  BY <1>1, <1>2, <1>3, <1>5, <1>6, Recording DEF TInv, TypeOK, CausalInv

\* The moves between the appends.
LEMMA MovingKeepsTInv ==
  ASSUME TInv, ToolAssumption,
         GoesToTools \/ ExecuteAnswers \/ OperationFails \/ AsksAgain \/ Succeeds \/ Commits
  PROVE  TInv'
<1>1. run.at # "idle"
  BY DEF GoesToTools, ExecuteAnswers, OperationFails, AsksAgain, Succeeds, Commits, AtStep, AtTool
<1>2. t0 \in Turn /\ run \in RunType /\ tx[t0] \in TxType
  BY <1>1, Types DEF TInv
<1>3. CASE GoesToTools
  <2>1. /\ run.at = "step" /\ tx[t0].iter < MaxIterations /\ run' = [run EXCEPT !.at = "tool"]
        /\ UNCHANGED <<entry, tries, durable, history, events>>
    BY <1>3 DEF GoesToTools, AtStep, GoesTo
  <2>2. run' \in RunType /\ run'.turn = t0 /\ run'.at = "tool"
    BY <1>2, <2>1 DEF RunType, Ats
  <2>4. Missing(t0)
    <3>1. tx[t0].last = "provider-step" /\ tx[t0].done = 0
      BY <1>2, <2>1 DEF TInv, AtTools, TxInv
    <3>2. tx[t0].calls # <<>> /\ tx[t0].calls \in Seq(Call)
      BY <1>2, <1>3 DEF GoesToTools, TxType
    <3>3. Len(tx[t0].calls) \in Nat /\ Len(tx[t0].calls) # 0
      BY <3>2
    <3> QED
      BY <3>1, <3>3 DEF Missing
  <2>3. AtAsk' /\ AtWire' /\ AtTools' /\ AtFile' /\ OpenAsksNobody' /\ CausalInv'
    BY <2>1, <2>2, <2>4 DEF TInv, AtAsk, AtWire, AtTools, AtFile, OpenAsksNobody, CausalInv, Missing
  <2> QED
    BY <1>1, <2>1, <2>2, <2>3, Moving DEF TInv, TypeOK
<1>4. CASE ExecuteAnswers \/ OperationFails
  <2>1. /\ run.at \in {"tool", "rename", "commit-op"} /\ Missing(t0)
        /\ \E result \in {"done", "denied", "error"} :
             run' = [run EXCEPT !.at = "result", !.result = result]
        /\ UNCHANGED <<entry, tries, durable, history>> /\ events' \in Nat
    <3>1. CASE ExecuteAnswers
      BY <3>1 DEF ExecuteAnswers, AtTool, Yields, TInv, TypeOK
    <3>2. CASE OperationFails
      <4>1. run.at \in {"tool", "rename", "commit-op"} /\ Missing(t0)
        BY <3>2 DEF OperationFails, AtTool, TInv, AtTools
      <4>2. /\ run' = [run EXCEPT !.at = "result", !.result = "error"]
            /\ UNCHANGED <<entry, tries, durable, history>> /\ events' = events + 1
        BY <3>2 DEF OperationFails, Yields, Counts
      <4> QED
        BY <4>1, <4>2 DEF TInv, TypeOK
    <3> QED
      BY <1>4, <3>1, <3>2
  <2>2. run' \in RunType /\ run'.turn = t0 /\ run'.at = "result"
    BY <1>2, <2>1 DEF RunType, Ats
  <2>3. AtAsk' /\ AtWire' /\ AtTools' /\ AtFile' /\ OpenAsksNobody' /\ CausalInv'
    BY <2>1, <2>2 DEF TInv, AtAsk, AtWire, AtTools, AtFile, OpenAsksNobody, CausalInv, Missing
  <2> QED
    BY <1>1, <2>1, <2>2, <2>3, Moving DEF TInv, TypeOK
<1>5. CASE AsksAgain
  <2>1. /\ run.at = "tool"
        /\ run' = [run EXCEPT !.at = "ask", !.iter = tx[t0].iter + 1, !.prov = 0]
        /\ UNCHANGED <<entry, tries, durable, history, events>>
        /\ tx[t0].last = "tool-result" /\ tx[t0].iter < MaxIterations
    BY <1>5 DEF AsksAgain, TInv, AtTools
  <2>2. tx[t0].iter + 1 \in 0 .. MaxIterations /\ 0 \in 0 .. Providers /\ "ask" \in Ats
    BY <1>2, <2>1 DEF TxType, ToolAssumption, Ats
  <2>3. run' \in RunType
    BY <1>2, <2>1, <2>2, RunTypes
  <2>4. run'.turn = t0 /\ run'.at = "ask" /\ run'.iter = tx[t0].iter + 1 /\ run'.prov = 0
    BY <1>2, <2>1 DEF RunType
  <2>5. AtAsk'
    <3>1. \A p \in asked[t0] : p[1] \in Nat /\ p[1] <= tx[t0].iter
      BY <1>2, <2>1 DEF TInv, TxInv, TypeOK, Position, ToolAssumption
    <3>2. tx[t0].iter \in Nat
      BY <1>2 DEF TxType, ToolAssumption
    <3>3. \A p \in asked[t0] : p[1] < tx[t0].iter + 1
      BY <3>1, <3>2
    <3>4. run'.turn = run.turn /\ tx' = tx /\ asked' = asked
      BY <2>1, <2>4
    <3>5. \A p \in asked[run.turn] : Before(p, tx[run.turn].iter + 1, 0)
      BY <3>3 DEF Before
    <3>6. \A p \in asked'[run'.turn] : Before(p, run'.iter, run'.prov)
      BY <2>4, <3>4, <3>5
    <3>7. tx'[run'.turn].last \in {"begin", "provider-failed", "tool-result"}
      BY <1>5, <2>1, <3>4 DEF AsksAgain
    <3> QED
      BY <3>6, <3>7 DEF AtAsk
  <2>6. AtWire' /\ AtTools' /\ AtFile' /\ OpenAsksNobody' /\ CausalInv'
    BY <2>1, <2>4 DEF TInv, AtWire, AtTools, AtFile, OpenAsksNobody, CausalInv
  <2> QED
    BY <1>1, <2>1, <2>3, <2>4, <2>5, <2>6, Moving DEF TInv, TypeOK
<1>6. CASE Succeeds
  <2>1. /\ run.at = "final" /\ run' = [run EXCEPT !.at = "output"] /\ ~circuit.open
        /\ circuit' = [circuit EXCEPT !.keys = {}]
        /\ UNCHANGED <<entry, tries, causal, tx, ops, approvals, file, context, history, events>>
    BY <1>6 DEF Succeeds, GoesTo, TInv, OpenAsksNobody
  <2>2. circuit' \in [open : BOOLEAN, keys : SUBSET Turn] /\ ~circuit'.open
    BY <2>1 DEF TInv, TypeOK
  <2>3. run' \in RunType /\ run'.turn = t0 /\ run'.at = "output"
    BY <1>2, <2>1 DEF RunType, Ats
  <2>4. AtAsk' /\ AtWire' /\ AtTools' /\ AtFile' /\ OpenAsksNobody' /\ CausalInv'
    BY <2>1, <2>2, <2>3 DEF TInv, AtAsk, AtWire, AtTools, AtFile, OpenAsksNobody, CausalInv
  <2> QED
    BY <1>1, <2>1, <2>2, <2>3, <2>4, Moving DEF TInv, TypeOK
<1>7. CASE Commits
  <2>1. /\ run.at = "output" /\ run' = [run EXCEPT !.at = "deliver"] /\ ~circuit.open
        /\ causal' = [causal EXCEPT ![t0] = "committed"] /\ context' = context + 1
        /\ UNCHANGED <<entry, tries, tx, ops, approvals, circuit, file, history, events>>
    BY <1>7 DEF Commits, GoesTo, TInv, OpenAsksNobody
  <2>2. /\ causal' \in [Turn -> {"received", "started", "rejected", "committed"}]
        /\ context' \in Nat
    BY <2>1 DEF TInv, TypeOK
  <2>3. run' \in RunType /\ run'.turn = t0 /\ run'.at = "deliver"
    BY <1>2, <2>1 DEF RunType, Ats
  <2>4. AtAsk' /\ AtWire' /\ AtTools' /\ AtFile' /\ OpenAsksNobody' /\ CausalInv'
    BY <1>2, <2>1, <2>3 DEF TInv, TypeOK, AtAsk, AtWire, AtTools, AtFile, OpenAsksNobody, CausalInv
  <2> QED
    BY <1>1, <2>1, <2>2, <2>3, <2>4, Moving DEF TInv, TypeOK
<1> QED
  BY <1>3, <1>4, <1>5, <1>6, <1>7

\* What execute finds in the file before it writes.
LEMMA ChecksKeepTInv ==
  ASSUME TInv, ToolAssumption, Check
  PROVE  TInv'
<1>1. /\ run.at = "check" /\ t0 \in Turn /\ run \in RunType
      /\ UNCHANGED <<durable, history, events>>
  BY Types DEF Check, TInv
<1>2. CASE file \notin {call.op, op.prior}
  <2>1. Leaves("parked") /\ UNCHANGED tries
    BY <1>2 DEF Check, Parks
  <2> QED
    BY <1>1, <2>1, ParkingKeepsTInv DEF TInv, TypeOK
<1>3. CASE file = call.op
  <2>1. run' = [run EXCEPT !.at = "commit-op"] /\ UNCHANGED <<entry, tries>>
    BY <1>3 DEF Check, GoesTo
  <2>2. run' \in RunType /\ run'.turn = t0 /\ run'.at = "commit-op"
    BY <1>1, <2>1 DEF RunType, Ats
  <2>4. Missing(t0) /\ call.id \in CallId
    BY <1>1, CallType DEF TInv, AtTools
  <2>5. AtFile'
    <3>1. op.st = "prepared" /\ op.op = call.op
      BY <1>1 DEF TInv, AtFile
    <3>2. <<t0, call.id>> \in held
      BY <1>1, <1>3, <2>4, <3>1 DEF TInv, HeldInv
    <3> QED
      BY <1>1, <2>2, <3>1, <3>2 DEF AtFile
  <2>3. AtAsk' /\ AtWire' /\ AtTools' /\ OpenAsksNobody' /\ CausalInv'
    BY <1>1, <2>2 DEF TInv, AtAsk, AtWire, AtTools, OpenAsksNobody, CausalInv, Missing
  <2> QED
    BY <1>1, <2>1, <2>2, <2>3, <2>5, Moving DEF TInv, TypeOK
<1>4. CASE file # call.op /\ file = op.prior
  <2>1. run' = [run EXCEPT !.at = "rename"] /\ UNCHANGED <<entry, tries>>
    BY <1>4 DEF Check, GoesTo
  <2>2. run' \in RunType /\ run'.turn = t0 /\ run'.at = "rename"
    BY <1>1, <2>1 DEF RunType, Ats
  <2>3. /\ Missing(t0) /\ call.id \in CallId
    BY <1>1, CallType DEF TInv, AtTools
  <2>4. writes[t0][call.id] = 0
    <3>1. op.op = call.op
      BY <1>1 DEF TInv, AtFile
    <3>2. writes[t0][call.id] \in Nat
      BY <1>1, <2>3 DEF TInv, TypeOK
    <3>3. /\ writes[t0][call.id] <= 1
          /\ writes[t0][call.id] = 1 => op.op = file
      BY <1>1, <2>3 DEF TInv, WriteInv
    <3>4. writes[t0][call.id] # 1
      BY <1>4, <3>1, <3>3
    <3> HIDE DEF t0, call, op
    <3> QED
      BY <3>2, <3>3, <3>4
  <2>5. AtFile'
    BY <1>1, <1>4, <2>2, <2>4 DEF TInv, AtFile
  <2>6. AtAsk' /\ AtWire' /\ AtTools' /\ OpenAsksNobody' /\ CausalInv'
    BY <1>1, <2>2 DEF TInv, AtAsk, AtWire, AtTools, OpenAsksNobody, CausalInv, Missing
  <2> QED
    BY <1>1, <2>1, <2>2, <2>5, <2>6, Moving DEF TInv, TypeOK
<1> QED
  BY <1>2, <1>3, <1>4

\* A call that waits for the operator parks its turn.
LEMMA WaitingKeepsTInv ==
  ASSUME TInv, ToolAssumption, ExecuteWaits
  PROVE  TInv'
<1>1. /\ run.at = "tool" /\ Missing(t0) /\ run' = Idle
      /\ approval \in {"none", "pending"}
      /\ approvals' = [approvals EXCEPT ![t0][call] = "pending"]
      /\ entry' = [entry EXCEPT ![t0] = "due"]
      /\ UNCHANGED <<tries, causal, tx, ops, circuit, file, context, history, events>>
  BY DEF ExecuteWaits, AtTool, Pauses, Leaves
<1>2. t0 \in Turn /\ call \in Call
  BY <1>1, Types, CallType DEF TInv
<1>3. approvals' \in [Turn -> [Call -> {"none", "pending", "approved", "denied"}]]
  BY <1>1, <1>2 DEF TInv, TypeOK
<1>4. TypeOK'
  BY <1>1, <1>2, <1>3, IdleType DEF TInv, TypeOK, RunType
<1>5. \A t \in Turn, c \in Call : approvals[t][c] = "approved" => approvals'[t][c] = "approved"
  BY <1>1, <1>2 DEF TInv, TypeOK, approval
<1>6. WrittenAsApproved'
  <2>1. ASSUME NEW t \in NeedApproval, NEW id \in CallId,
               ops[t][id].st # "none", ops[t][id].op \in Content
        PROVE  approvals'[t][[id |-> id, op |-> ops[t][id].op]] = "approved"
    <3>1. t \in Turn /\ [id |-> id, op |-> ops[t][id].op] \in Call
      BY <2>1 DEF ToolAssumption, Call, Op
    <3> QED
      BY <1>5, <2>1, <3>1 DEF TInv, WrittenAsApproved
  <2> QED
    BY <1>1, <2>1 DEF WrittenAsApproved
<1>7. DueInv' /\ CausalInv'
  BY <1>1, <1>2, IdleType DEF TInv, TypeOK, DueInv, CausalInv
<1> QED
  BY <1>1, <1>4, <1>6, <1>7, IdleType DEF TInv, TxInv, AtAsk, AtWire, AtTools, AtFile, WriteInv, HeldInv,
       OpenAsksNobody

\* prepareOperation and commitOperation.
LEMMA OperationKeepsTInv ==
  ASSUME TInv, ToolAssumption, Prepares \/ CommitOperation
  PROVE  TInv'
<1>1. /\ run.at \in {"tool", "commit-op"} /\ Missing(t0) /\ t0 \in Turn /\ run \in RunType
      /\ ~circuit.open
      /\ UNCHANGED <<entry, tries, causal, tx, approvals, circuit, file, context, asked, doubt,
                     writes, revived, events>>
  BY Types DEF Prepares, PreparesIf, CommitOperation, AtTool, GoesTo, Yields, TInv, AtTools,
       OpenAsksNobody
<1>2. /\ call \in Call /\ call.id \in CallId /\ call.op \in Op
      /\ call = [id |-> call.id, op |-> call.op] /\ op \in OpType
  BY <1>1, CallType DEF TInv
<1>3. tx[t0].last \in {"provider-step", "tool-result"} /\ tx[t0].iter < MaxIterations
  BY <1>1 DEF TInv, AtTools
\* It is enough to look at the operation of this call.
<1>4. ASSUME NEW new \in OpType, ops' = [ops EXCEPT ![t0][call.id] = new],
             run' \in RunType, run'.turn = t0,
             run'.at \in {"check", "commit-op", "result"},
             run'.at # "result" => new.st = "prepared" /\ new.op = call.op,
             run'.at = "check" => call.op \in Content,
             new.st # "none",
             held' \subseteq Turn \X CallId, held \subseteq held',
             new.st = "prepared" /\ new.op = file => <<t0, call.id>> \in held',
             new.st = "committed" /\ new.op \in Content => <<t0, call.id>> \in held',
             run'.at = "commit-op" => call.op \notin Content,
             op.st # "none" => new.op = op.op,
             op.st = "none" /\ t0 \in NeedApproval /\ new.op \in Content =>
               new.op = call.op /\ approval = "approved"
      PROVE  TInv'
  <2>1. ops' \in [Turn -> [CallId -> OpType]]
    BY <1>1, <1>2, <1>4 DEF TInv, TypeOK, OpType
  <2>2. TypeOK'
    BY <1>1, <1>4, <2>1 DEF TInv, TypeOK, RunType, OpType
  <2>3. AtAsk' /\ AtWire' /\ AtTools' /\ OpenAsksNobody' /\ CausalInv' /\ DueInv'
    BY <1>1, <1>3, <1>4 DEF TInv, AtAsk, AtWire, AtTools, OpenAsksNobody, CausalInv, DueInv, Missing
  <2>4. /\ ops'[t0][call.id] = new
        /\ \A t \in Turn, id \in CallId :
             t # t0 \/ id # call.id => ops'[t][id] = ops[t][id]
    BY <1>1, <1>2, <1>4 DEF TInv, TypeOK
  <2>5. AtFile'
    BY <1>1, <1>4, <2>4 DEF AtFile
  <2>6. WriteInv'
    <3> SUFFICES ASSUME NEW t \in Turn, NEW id \in CallId
                 PROVE  /\ writes[t][id] <= 1
                        /\ writes[t][id] = 1 => ops'[t][id].st # "none" /\ ops'[t][id].op = file
      BY <1>1 DEF WriteInv
    <3>1. CASE t = t0 /\ id = call.id
      BY <1>4, <2>4, <3>1 DEF TInv, WriteInv
    <3>2. CASE t # t0 \/ id # call.id
      BY <2>4, <3>2 DEF TInv, WriteInv
    <3> QED
      BY <3>1, <3>2
  <2>7. WrittenAsApproved'
    <3> SUFFICES ASSUME NEW t \in NeedApproval, NEW id \in CallId,
                        ops'[t][id].st # "none", ops'[t][id].op \in Content
                 PROVE  approvals[t][[id |-> id, op |-> ops'[t][id].op]] = "approved"
      BY <1>1 DEF WrittenAsApproved
    <3>0. t \in Turn
      BY DEF ToolAssumption
    <3>1. CASE t = t0 /\ id = call.id /\ op.st # "none"
      <4>1. ops'[t][id] = new /\ new.op = op.op /\ op = ops[t][id]
        BY <1>4, <2>4, <3>1
      <4>2. ops[t][id].st # "none" /\ ops[t][id].op \in Content
        BY <3>1, <4>1
      <4> QED
        BY <4>1, <4>2 DEF TInv, WrittenAsApproved
    <3>2. CASE t = t0 /\ id = call.id /\ op.st = "none"
      <4>1. ops'[t][id] = new
        BY <2>4, <3>2
      <4>2. new.op = call.op /\ approval = "approved"
        BY <1>4, <3>2, <4>1
      <4>3. [id |-> id, op |-> new.op] = call
        BY <1>2, <3>2, <4>2
      <4> QED
        BY <3>2, <4>1, <4>2, <4>3 DEF approval
    <3>3. CASE t # t0 \/ id # call.id
      BY <2>4, <3>0, <3>3 DEF TInv, WrittenAsApproved
    <3> QED
      BY <3>1, <3>2, <3>3
  <2>8. (\A t \in Turn : TxInv(t))'
    BY <1>1 DEF TInv, TxInv
  <2>9. HeldInv'
    <3> SUFFICES ASSUME NEW t \in Turn, NEW id \in CallId
                 PROVE  /\ ops'[t][id].st = "prepared" /\ ops'[t][id].op = file =>
                             <<t, id>> \in held'
                        /\ ops'[t][id].st = "committed" /\ ops'[t][id].op \in Content =>
                             <<t, id>> \in held'
      BY <1>1 DEF HeldInv
    <3>1. CASE t = t0 /\ id = call.id
      <4>1. ops'[t][id] = new
        BY <2>4, <3>1
      <4> QED
        BY <1>4, <3>1, <4>1
    <3>2. CASE t # t0 \/ id # call.id
      <4>1. ops'[t][id] = ops[t][id]
        BY <2>4, <3>2
      <4> QED
        BY <1>4, <4>1 DEF TInv, HeldInv
    <3> QED
      BY <3>1, <3>2
  <2> QED
    BY <2>2, <2>3, <2>5, <2>6, <2>7, <2>8, <2>9 DEF TInv
<1>5. CASE Prepares
  <2> DEFINE new == IF op.st = "prepared" THEN op
                    ELSE [st |-> "prepared", op |-> call.op, prior |-> file]
  <2>1. Permitted /\ Known /\ op.st \in {"none", "prepared"}
    BY <1>2, <1>5 DEF Prepares, PreparesIf, Permitted, OpType
  <2>2. new \in OpType /\ new.st = "prepared" /\ new.op = call.op
    BY <1>2, <2>1 DEF OpType, Known, TInv, TypeOK
  <2>3. ops' = [ops EXCEPT ![t0][call.id] = new]
    BY <1>1, <1>2, <1>5 DEF Prepares, PreparesIf, TInv, TypeOK
  <2>4. /\ run' \in RunType /\ run'.turn = t0
        /\ run'.at = IF call.op = "read" THEN "commit-op" ELSE "check"
    BY <1>1, <1>5 DEF Prepares, PreparesIf, GoesTo, RunType, Ats
  <2>5. call.op # "read" => call.op \in Content
    BY <1>2, <2>1 DEF Known, Op
  <2>6. op.st # "none" => new.op = op.op
    BY <2>1, <2>2 DEF Known
  <2>7. t0 \in NeedApproval /\ new.op \in Content => approval = "approved"
    BY <2>1, <2>2 DEF Permitted, Guarded
  <2> HIDE DEF new
  <2>8. held' = held \cup Holding(file, ops')
    BY <1>5 DEF Prepares, PreparesIf
  <2>9. ops'[t0][call.id] = new
    BY <1>1, <1>2, <2>3 DEF TInv, TypeOK
  <2>10. held' \subseteq Turn \X CallId /\ held \subseteq held'
    BY <2>8 DEF Holding, TInv, TypeOK
  <2>11. new.st = "prepared" /\ new.op = file => <<t0, call.id>> \in held'
    BY <1>1, <1>2, <2>8, <2>9 DEF Holding
  <2>12. run'.at = "commit-op" => call.op \notin Content
    BY <2>4 DEF ToolAssumption
  <2> QED
    BY <1>4, <2>2, <2>3, <2>4, <2>5, <2>6, <2>7, <2>10, <2>11, <2>12
<1>6. CASE CommitOperation
  <2> DEFINE new == [op EXCEPT !.st = "committed"]
  <2>1. new \in OpType /\ new.st = "committed" /\ new.op = op.op
    BY <1>2 DEF OpType
  <2>2. ops' = [ops EXCEPT ![t0][call.id] = new] /\ run.at = "commit-op"
    BY <1>1, <1>2, <1>6 DEF CommitOperation, TInv, TypeOK
  <2>3. run' \in RunType /\ run'.turn = t0 /\ run'.at = "result"
    BY <1>1, <1>6 DEF CommitOperation, Yields, RunType, Ats
  <2>4. op.st = "prepared" /\ op.op = call.op
        /\ (call.op \in Content => <<t0, call.id>> \in held)
    BY <2>2 DEF TInv, AtFile
  <2>5. held' = held /\ held \subseteq Turn \X CallId
    BY <1>6 DEF CommitOperation, TInv, TypeOK
  <2> HIDE DEF new
  <2> QED
    BY <1>4, <2>1, <2>2, <2>3, <2>4, <2>5
<1> QED
  BY <1>5, <1>6

\* The rename that puts a call's content in the file.
LEMMA RenameKeepsTInv ==
  ASSUME TInv, ToolAssumption, Rename
  PROVE  TInv'
<1>1. /\ run.at = "rename" /\ Missing(t0) /\ t0 \in Turn /\ run \in RunType /\ ~circuit.open
      /\ call.op \in Content /\ op.st = "prepared" /\ op.op = call.op /\ writes[t0][call.id] = 0
      /\ file' = call.op /\ run' = [run EXCEPT !.at = "commit-op"]
      /\ held' = held \cup Holding(file', ops)
      /\ UNCHANGED <<entry, tries, causal, tx, ops, approvals, circuit, context, asked, doubt,
                     revived, events>>
  BY Types DEF Rename, GoesTo, TInv, AtTools, AtFile, OpenAsksNobody
<1>2. /\ writes' \in [Turn -> [CallId -> {0, 1}]]
      /\ \A t \in Turn, id \in CallId : writes'[t][id] = 1 => t = t0 /\ id = call.id
  <2>1. writes' = [t \in Turn |-> [id \in CallId |->
                    IF t = t0 /\ id = call.id THEN writes[t][id] + 1 ELSE 0]]
    BY DEF Rename
  <2>2. \A t \in Turn, id \in CallId :
          writes'[t][id] = IF t = t0 /\ id = call.id THEN writes[t][id] + 1 ELSE 0
    BY <2>1
  <2>7. writes[t0][call.id] = 0
    BY <1>1
  <2>3. writes[t0][call.id] + 1 = 1
    BY <2>7
  <2>4. ASSUME NEW t \in Turn, NEW id \in CallId
        PROVE  writes'[t][id] = IF t = t0 /\ id = call.id THEN 1 ELSE 0
    <3>1. CASE t = t0 /\ id = call.id
      BY <2>2, <2>3, <3>1
    <3>2. CASE ~(t = t0 /\ id = call.id)
      BY <2>2, <3>2
    <3> QED
      BY <3>1, <3>2
  <2>5. DOMAIN writes' = Turn /\ \A t \in Turn : writes'[t] = [id \in CallId |-> writes'[t][id]]
    BY <2>1
  <2>6. writes' = [t \in Turn |-> [id \in CallId |-> writes'[t][id]]]
    BY <2>1
  <2> HIDE DEF t0, call
  <2> QED
    BY <2>4, <2>6
<1>3. run' \in RunType /\ run'.turn = t0 /\ run'.at = "commit-op"
  BY <1>1 DEF RunType, Ats
<1>4. TypeOK'
  <2>1. writes' \in [Turn -> [CallId -> Nat]]
    <3>1. {0, 1} \subseteq Nat
      OBVIOUS
    <3>2. \A t \in Turn : writes'[t] \in [CallId -> {0, 1}]
      BY <1>2
    <3>3. \A t \in Turn : writes'[t] \in [CallId -> Nat]
      BY <3>1, <3>2
    <3>4. DOMAIN writes' = Turn /\ writes' = [t \in Turn |-> writes'[t]]
      BY <1>2
    <3> QED
      BY <3>3, <3>4
  <2>3. file' \in Content \cup {Absent}
    BY <1>1
  <2>2. run'.turn # NoTurn /\ run'.at # "idle"
    BY <1>1, <1>3 DEF ToolAssumption
  <2>4. held' \subseteq Turn \X CallId
    BY <1>1 DEF Holding, TInv, TypeOK
  <2> QED
    BY <1>1, <1>3, <2>1, <2>2, <2>3, <2>4 DEF TInv, TypeOK, RunType
<1>8. call.id \in CallId /\ <<t0, call.id>> \in held'
  BY <1>1, CallType DEF Holding, TInv
<1>9. HeldInv'
  <2>1. held \subseteq held' /\ ops' = ops
    BY <1>1
  <2>2. \A t \in Turn, id \in CallId :
          ops[t][id].st = "prepared" /\ ops[t][id].op = file' => <<t, id>> \in held'
    BY <1>1 DEF Holding
  <2> QED
    BY <2>1, <2>2 DEF TInv, HeldInv
<1>5. AtAsk' /\ AtWire' /\ AtTools' /\ AtFile' /\ OpenAsksNobody' /\ CausalInv' /\ DueInv'
  BY <1>1, <1>3, <1>8
     DEF TInv, AtAsk, AtWire, AtTools, AtFile, OpenAsksNobody, CausalInv, DueInv, Missing
<1>6. WriteInv'
  <2> SUFFICES ASSUME NEW t \in Turn, NEW id \in CallId
               PROVE  /\ writes'[t][id] <= 1
                      /\ writes'[t][id] = 1 => ops'[t][id].st # "none" /\ ops'[t][id].op = file'
    BY DEF WriteInv
  <2>1. writes'[t][id] \in {0, 1}
    BY <1>2
  <2>2. writes'[t][id] = 1 => t = t0 /\ id = call.id
    BY <1>2
  <2>3. writes'[t][id] <= 1
    BY <2>1
  <2>4. ops' = ops /\ file' = call.op /\ op.st = "prepared" /\ op.op = call.op
    BY <1>1
  <2>5. ops[t0][call.id].st = "prepared" /\ ops[t0][call.id].op = file'
    BY <2>4
  <2>6. writes'[t][id] = 1 => ops'[t][id].st # "none" /\ ops'[t][id].op = file'
    BY <2>2, <2>4, <2>5
  <2> QED
    BY <2>3, <2>6
<1>7. (\A t \in Turn : TxInv(t))' /\ WrittenAsApproved'
  BY <1>1 DEF TInv, TxInv, WrittenAsApproved
<1> QED
  BY <1>4, <1>5, <1>6, <1>7, <1>9 DEF TInv

-----------------------------------------------------------------------------
(* The operator and others.                                                *)

\* The operator revives turns, answers approvals and closes the circuit.
LEMMA OperatorKeepsTInv ==
  ASSUME TInv, ToolAssumption, Operator
  PROVE  TInv'
<1>1. ASSUME NEW t \in Turn, Revives(t)
      PROVE  TInv'
  <2>1. /\ run = Idle /\ UNCHANGED <<run, durable, asked, doubt, writes, held>>
        /\ entry' = [entry EXCEPT ![t] = "due"] /\ tries' = [tries EXCEPT ![t] = 0]
        /\ revived' \in SUBSET Turn /\ events' \in Nat
    BY <1>1 DEF Revives, Counts, TInv, TypeOK
  <2>4. 0 \in 0 .. MaxAttempts /\ 0 < MaxAttempts
    BY DEF ToolAssumption
  <2>2. TypeOK'
    BY <2>1, <2>4 DEF TInv, TypeOK
  <2>3. DueInv'
    BY <2>1, <2>4, IdleType DEF TInv, TypeOK, DueInv
  <2> QED
    BY <2>1, <2>2, <2>3, IdleType DEF TInv, TxInv, AtAsk, AtWire, AtTools, AtFile, WriteInv, HeldInv,
         CausalInv, WrittenAsApproved, OpenAsksNobody
<1>2. ASSUME NEW t \in Turn, NEW c \in Call, Resolve(t, c)
      PROVE  TInv'
  <2>1. PICK verdict \in {"approved", "denied"} :
          approvals' = [approvals EXCEPT ![t][c] = verdict]
    BY <1>2 DEF Resolve
  <2>2. approvals[t][c] = "pending"
        /\ UNCHANGED <<run, entry, tries, causal, tx, ops, circuit, file, context, history, events>>
    BY <1>2 DEF Resolve
  <2>3. approvals' \in [Turn -> [Call -> {"none", "pending", "approved", "denied"}]]
    BY <2>1 DEF TInv, TypeOK
  <2>4. TypeOK'
    BY <2>2, <2>3 DEF TInv, TypeOK
  <2>5. \A v \in Turn, d \in Call : approvals[v][d] = "approved" => approvals'[v][d] = "approved"
    BY <2>1, <2>2 DEF TInv, TypeOK
  <2>6. WrittenAsApproved'
    <3>1. ASSUME NEW v \in NeedApproval, NEW id \in CallId,
                 ops[v][id].st # "none", ops[v][id].op \in Content
          PROVE  approvals'[v][[id |-> id, op |-> ops[v][id].op]] = "approved"
      <4>1. v \in Turn /\ [id |-> id, op |-> ops[v][id].op] \in Call
        BY <3>1 DEF ToolAssumption, Call, Op
      <4> QED
        BY <2>5, <3>1, <4>1 DEF TInv, WrittenAsApproved
    <3> QED
      BY <2>2, <3>1 DEF WrittenAsApproved
  <2> QED
    BY <2>2, <2>4, <2>6 DEF TInv, TxInv, AtAsk, AtWire, AtTools, AtFile, Missing, WriteInv, HeldInv, DueInv,
         CausalInv, OpenAsksNobody
<1>3. CASE ClearCircuit
  <2>1. TypeOK'
    BY <1>3 DEF TInv, TypeOK, ClearCircuit
  <2> QED
    BY <1>3, <2>1, IdleType DEF TInv, TxInv, AtAsk, AtWire, AtTools, AtFile, WriteInv, HeldInv, DueInv,
         CausalInv, WrittenAsApproved, OpenAsksNobody, ClearCircuit
<1> QED
  BY <1>1, <1>2, <1>3 DEF Operator

\* The file is edited by others, and the context the prompt is made of changes.
LEMMA OthersKeepTInv ==
  ASSUME TInv, ToolAssumption, Edits \/ Folds
  PROVE  TInv'
<1>1. CASE Edits
  <2>1. /\ file' \in Content \cup {Absent} /\ writes' = [t \in Turn |-> [id \in CallId |-> 0]]
        /\ held' = held \cup Holding(file', ops) /\ events' \in Nat
        /\ UNCHANGED <<run, entry, tries, causal, tx, ops, approvals, circuit, context, asked,
                       doubt, revived>>
    BY <1>1 DEF Edits, Counts, TInv, TypeOK
  <2>2. held' \subseteq Turn \X CallId
    BY <2>1 DEF Holding, TInv, TypeOK
  <2>3. TypeOK'
    BY <2>1, <2>2 DEF TInv, TypeOK
  <2>4. AtFile'
    <3>1. run.at = "rename" => t0 \in Turn /\ call.id \in CallId
      BY Types, CallType DEF TInv, AtTools
    <3> QED
      BY <2>1, <3>1 DEF TInv, AtFile
  <2>5. WriteInv'
    BY <2>1 DEF WriteInv
  <2>6. HeldInv'
    <3>1. held \subseteq held' /\ ops' = ops
      BY <2>1
    <3>2. \A t \in Turn, id \in CallId :
            ops[t][id].st = "prepared" /\ ops[t][id].op = file' => <<t, id>> \in held'
      BY <2>1 DEF Holding
    <3> QED
      BY <3>1, <3>2 DEF TInv, HeldInv
  <2> QED
    BY <2>1, <2>3, <2>4, <2>5, <2>6 DEF TInv, TxInv, AtAsk, AtWire, AtTools, Missing, DueInv,
         CausalInv, WrittenAsApproved, OpenAsksNobody
<1>2. CASE Folds
  <2>1. TypeOK'
    BY <1>2 DEF TInv, TypeOK, Folds, Counts
  <2> QED
    BY <1>2, <2>1 DEF TInv, TxInv, AtAsk, AtWire, AtTools, AtFile, Missing, WriteInv, HeldInv, DueInv,
         CausalInv, WrittenAsApproved, OpenAsksNobody, Folds
<1> QED
  BY <1>1, <1>2

-----------------------------------------------------------------------------
(* The theorems.                                                           *)

\* The invariant holds at first.
LEMMA InitTInv ==
  ASSUME Init, ToolAssumption
  PROVE  TInv
<1>1. TypeOK
  <2>1. tx \in [Turn -> TxType]
    <3>1. <<>> \in Seq(Call)
      OBVIOUS
    <3>2. NewTx \in TxType
      BY <3>1 DEF NewTx, TxType, ToolAssumption
    <3> QED
      BY <3>2 DEF Init
  <2>2. ops \in [Turn -> [CallId -> OpType]]
    BY DEF Init, NoOp, OpType, Op
  <2>3. run \in RunType /\ (run.turn = NoTurn) = (run.at = "idle")
    BY IdleType DEF Init
  <2> QED
    BY <2>1, <2>2, <2>3 DEF Init, TypeOK, TxType, OpType, RunType, ToolAssumption
<1>2. \A t \in Turn : TxInv(t)
  BY DEF Init, TxInv, NewTx
<1>3. WriteInv /\ HeldInv /\ DueInv /\ CausalInv /\ WrittenAsApproved /\ OpenAsksNobody
  BY DEF Init, WriteInv, HeldInv, DueInv, CausalInv, WrittenAsApproved, OpenAsksNobody, Idle, NewTx, NoOp,
       ToolAssumption
<1>4. AtAsk /\ AtWire /\ AtTools /\ AtFile
  BY DEF Init, Idle, AtAsk, AtWire, AtTools, AtFile
<1> QED
  BY <1>1, <1>2, <1>3, <1>4 DEF TInv

\* Every step preserves the invariant.
LEMMA NextKeepsTInv ==
  ASSUME TInv, [Next]_vars
  PROVE  TInv'
<1>1. CASE UNCHANGED vars
  <2>1. /\ run' = run /\ entry' = entry /\ tries' = tries /\ causal' = causal /\ tx' = tx
        /\ ops' = ops /\ approvals' = approvals /\ circuit' = circuit /\ file' = file
        /\ context' = context /\ asked' = asked /\ doubt' = doubt /\ writes' = writes
        /\ held' = held /\ revived' = revived /\ events' = events
    BY <1>1 DEF vars
  <2>2. TypeOK'
    BY <2>1 DEF TInv, TypeOK
  <2>3. (\A t \in Turn : TxInv(t))'
    BY <2>1 DEF TInv, TxInv
  <2>4. AtAsk' /\ AtWire' /\ AtTools' /\ AtFile'
    BY <2>1 DEF TInv, AtAsk, AtWire, AtTools, AtFile, Missing
  <2>5. WriteInv' /\ HeldInv' /\ DueInv' /\ CausalInv' /\ WrittenAsApproved' /\ OpenAsksNobody'
    BY <2>1 DEF TInv, WriteInv, HeldInv, DueInv, CausalInv, WrittenAsApproved, OpenAsksNobody
  <2> QED
    BY <2>2, <2>3, <2>4, <2>5 DEF TInv
<1>2. CASE \E t \in Turn : Refuses(t) \/ Starts(t)
  BY <1>2, ToolAssumption, RefusingKeepsTInv, StartingKeepsTInv
<1>3. CASE Respond
  BY <1>3, ToolAssumption, EndingKeepsTInv, BeginningKeepsTInv, ResumingKeepsTInv,
     SkippingKeepsTInv, AskingKeepsTInv, AnsweringKeepsTInv, FinalKeepsTInv, MovingKeepsTInv
     DEF Respond
<1>4. CASE Execute
  BY <1>4, ToolAssumption, MovingKeepsTInv, WaitingKeepsTInv, OperationKeepsTInv, ChecksKeepTInv,
     RenameKeepsTInv, RecordingResultKeepsTInv
     DEF Execute
<1>5. CASE Succeeds \/ Commits \/ Delivers \/ OperationFails \/ AppendThrows \/ Crash
  BY <1>5, ToolAssumption, MovingKeepsTInv, EndingKeepsTInv, CrashKeepsTInv
<1>6. CASE Operator \/ Edits \/ Folds
  BY <1>6, ToolAssumption, OperatorKeepsTInv, OthersKeepTInv
<1> QED
  BY <1>1, <1>2, <1>3, <1>4, <1>5, <1>6 DEF Next, Handle

\* The inductive invariant the theorems below follow from: it ties the last event of the
\* transaction to the place the run is at, and each call's record to the file it wrote.
THEOREM ToolLoopInductive == Spec => []TInv
<1>1. Init => TInv
  BY ToolAssumption, InitTInv
<1>2. TInv /\ [Next]_vars => TInv'
  BY NextKeepsTInv
<1> QED
  BY <1>1, <1>2, PTL DEF Spec

\* The state keeps its shape.
THEOREM ToolLoopTyped == Spec => []TypeOK
<1>1. TInv => TypeOK
  BY DEF TInv
<1> QED
  BY <1>1, ToolLoopInductive, PTL

\* No provider gets the request of an iteration twice, and none is asked while a request
\* of the turn is in doubt (respondWithTools, canResume).
THEOREM NoRequestTwice == Spec => []AskedOnce
<1>1. TInv => AskedOnce
  <2> SUFFICES ASSUME TInv, run.at = "ask", run.prov < Providers
               PROVE  t0 \notin doubt /\ <<run.iter, run.prov>> \notin asked[t0]
    BY DEF AskedOnce
  <2>1. t0 \in Turn /\ run \in RunType /\ run.iter \in Int /\ run.prov \in Int
    BY Types DEF TInv, RunType
  <2>2. t0 \notin doubt
    BY <2>1 DEF TInv, TxInv, AtAsk
  <2>3. ~Before(<<run.iter, run.prov>>, run.iter, run.prov)
    BY <2>1 DEF Before
  <2> QED
    BY <2>2, <2>3 DEF TInv, AtAsk
<1> QED
  BY <1>1, ToolLoopInductive, PTL

\* What a resumed turn records, the journal accepts (_invalidTransactionAppend).
THEOREM EveryAppendFits == Spec => []JournalAccepts
<1>1. TInv => JournalAccepts
  BY DEF TInv, AtAsk, AtWire, AtTools, JournalAccepts, Follows
<1> QED
  BY <1>1, ToolLoopInductive, PTL

\* A call writes the file once, unless somebody else changes it since (prepareOperation,
\* writeFile, commitOperation).
THEOREM OneWritePerCall == Spec => []WrittenOnce
<1>1. TInv => WrittenOnce
  BY DEF TInv, WriteInv, WrittenOnce
<1> QED
  BY <1>1, ToolLoopInductive, PTL

\* A write that is committed was made: the file had its content at some moment since the
\* call was prepared, through any crash, failed append and edit in between.
THEOREM CommittedWritesWereMade == Spec => []CommittedWasWritten
<1>1. TInv => CommittedWasWritten
  BY DEF TInv, HeldInv, CommittedWasWritten
<1> QED
  BY <1>1, ToolLoopInductive, PTL

\* Where approval is needed, the file gets what the operator approved.
THEOREM WritesAreApproved == Spec => []WrittenAsApproved
<1>1. TInv => WrittenAsApproved
  BY DEF TInv
<1> QED
  BY <1>1, ToolLoopInductive, PTL

\* The open circuit lets no turn ask.
THEOREM CircuitHolds == Spec => []OpenAsksNobody
<1>1. TInv => OpenAsksNobody
  BY DEF TInv
<1> QED
  BY <1>1, ToolLoopInductive, PTL

=============================================================================
