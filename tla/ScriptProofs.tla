---------------------------- MODULE ScriptProofs ----------------------------
(***************************************************************************)
(* Proofs about Script for batches of any length and nesting, any number   *)
(* of names, any limits on loops and triggers, and integers of any width.  *)
(***************************************************************************)
EXTENDS Script, FiniteSetTheorems, SequenceTheorems, WellFoundedInduction, TLAPS

\* No SELECT of a FOR loop returns two columns of one name.
DistinctColumns ==
  \A keys \in Columns : \A m, n \in DOMAIN keys : keys[m] = keys[n] => m = n

-----------------------------------------------------------------------------
(* The inductive invariant.                                                *)

\* Which calls contain which: the batch is the first, a function is called by
\* a SET, a trigger by a data statement.
NestingOK ==
  /\ frames # <<>> => frames[1].kind = "batch"
  /\ \A i \in 1..Len(frames) :
       /\ frames[i].kind = "batch" => i = 1
       /\ frames[i].kind = "function" => i > 1 /\ frames[i - 1].kind = "set"
       /\ frames[i].kind = "trigger" => i > 1 /\ frames[i - 1].kind = "dml"
       /\ frames[i].kind = "set" => i < Len(frames) /\ frames[i + 1].kind = "function"

\* Between batches no error is under way, and only then has the client an
\* answer; savepoints are those of an explicit transaction.
BatchOK ==
  /\ frames = <<>> => signal = "ok"
  /\ reply # "none" => frames = <<>>
  /\ saves # <<>> => explicit

\* A record that tells of a failure is the last, and its statement was one of
\* the batch itself.
LogOK ==
  /\ log \in Seq([index : Nat, ok : BOOLEAN])
  /\ stmtIndex = Len(log)
  /\ \A i \in 1..Len(log) : log[i].index = i - 1
  /\ \A i \in 1..Len(log) : ~log[i].ok => i = Len(log) /\ (reply = "error" \/ (Failing /\ Len(frames) = 1))

\* While a RETURN is on its way, pending_return_value is what the innermost
\* call said last.
ReturnOK ==
  signal = "return" => \A i \in Calls : (\A j \in Calls : j <= i) => pending = frames[i].said

\* A loop has each of its names once.
NamesOnce(f) ==
  f.kind \in {"for", "rows"} => \A m, n \in DOMAIN f.saved : f.saved[m].key = f.saved[n].key => m = n
LoopsOK == \A i \in 1..Len(frames) : NamesOnce(frames[i])

IInv == TypeOK /\ NestingOK /\ CountersMatch /\ BatchOK /\ LogOK /\ ReturnOK /\ (DistinctColumns => LoopsOK)

USE Limits

-----------------------------------------------------------------------------
(* Frames.                                                                 *)

\* What a frame of each kind holds.
LEMMA FrameFields ==
  ASSUME NEW f \in Frames
  PROVE  /\ f.kind = "loop" => f \in [kind : {"loop"}, cond : BOOLEAN, iter : 0..(MaxLoop - 1)]
         /\ f.kind = "for" => f \in [kind : {"for"}, saved : Seq([key : Vars, was : Values \cup {Unset}]),
                                     iter : 0..(MaxLoop - 1), at : Ints, to : Ints, by : Ints \ {0}]
         /\ f.kind = "rows" => f \in [kind : {"rows"}, saved : Seq([key : Vars, was : Values \cup {Unset}]),
                                      iter : 0..(MaxLoop - 1), rows : Nat]
         /\ f.kind = "block" => f \in [kind : {"block"}, handlers : Handlers, caught : BOOLEAN]
         /\ f.kind = "set" => f \in [kind : {"set"}, key : Names]
         /\ f.kind = "function" => f \in [kind : {"function"}, prev : Values \cup {Unset}, said : Values]
         /\ f.kind = "dml" => f \in [kind : {"dml"}, id : 0..MaxStatements, written : BOOLEAN, left : Nat]
         /\ f.kind \in {"batch", "branch", "trigger", "loop", "for", "rows", "block", "set", "function", "dml"}
BY DEF Frames

\* Leave takes n frames off.
LEMMA LeaveFrames ==
  ASSUME TypeOK, NEW n \in 0..Len(frames), NEW sig, Leave(n, sig)
  PROVE  /\ frames' \in Seq(Frames) /\ Len(frames') = Len(frames) - n
         /\ \A i \in 1..(Len(frames) - n) : frames'[i] = frames[i]
<1>1. /\ frames \in Seq(Frames) /\ Len(frames) \in Nat
      /\ \A i \in 1..Len(frames) : frames[i] \in Frames
  BY LenProperties, ElementOfSeq DEF TypeOK
<1>2. frames' = SubSeq(frames, 1, Len(frames) - n)  BY DEF Leave
<1>3. \A i \in 1..(Len(frames) - n) : frames[i] \in Frames  BY <1>1
<1>4. /\ SubSeq(frames, 1, Len(frames) - n) \in Seq(Frames)
      /\ Len(SubSeq(frames, 1, Len(frames) - n)) = IF 1 <= Len(frames) - n THEN Len(frames) - n - 1 + 1 ELSE 0
      /\ \A i \in 1..(Len(frames) - n - 1 + 1) : SubSeq(frames, 1, Len(frames) - n)[i] = frames[1 + i - 1]
  BY <1>1, <1>3, SubSeqProperties
<1> QED  BY <1>1, <1>2, <1>4

\* The frame on top, and those below it.
LEMMA TopFrame ==
  ASSUME TypeOK, frames # <<>>
  PROVE  /\ Len(frames) \in Nat \ {0} /\ Top \in Frames
         /\ Below \in Seq(Frames) /\ Len(Below) = Len(frames) - 1
         /\ \A i \in 1..(Len(frames) - 1) : Below[i] = frames[i]
<1>0. frames \in Seq(Frames)  BY DEF TypeOK
<1>a. Len(frames) \in Nat \ {0}  BY <1>0, EmptySeq
<1>1. /\ frames \in Seq(Frames) /\ Len(frames) \in Nat \ {0}
      /\ \A i \in 1..Len(frames) : frames[i] \in Frames
  BY <1>0, <1>a, ElementOfSeq
<1>2. \A i \in 1..(Len(frames) - 1) : frames[i] \in Frames  BY <1>1
<1>3. /\ SubSeq(frames, 1, Len(frames) - 1) \in Seq(Frames)
      /\ Len(SubSeq(frames, 1, Len(frames) - 1)) = IF 1 <= Len(frames) - 1 THEN Len(frames) - 1 - 1 + 1 ELSE 0
      /\ \A i \in 1..(Len(frames) - 1 - 1 + 1) : SubSeq(frames, 1, Len(frames) - 1)[i] = frames[1 + i - 1]
  BY <1>1, <1>2, SubSeqProperties
<1>4. Len(frames) \in 1..Len(frames)  BY <1>1
<1>5. Top \in Frames  BY <1>1, <1>4 DEF Top
<1>6. Below = SubSeq(frames, 1, Len(frames) - 1)  BY DEF Below, Front
<1> HIDE DEF Below
<1> DEFINE n == Len(frames)
           s == SubSeq(frames, 1, n - 1)
<1>7. n \in Nat \ {0} /\ Below = s /\ Below \in Seq(Frames)
      /\ Len(s) = (IF 1 <= n - 1 THEN n - 1 - 1 + 1 ELSE 0)
      /\ \A i \in 1..(n - 1 - 1 + 1) : s[i] = frames[1 + i - 1]
  BY <1>1, <1>3, <1>6
<1>8. Len(Below) = n - 1 /\ \A i \in 1..(n - 1) : Below[i] = frames[i]
  <2> HIDE DEF n, s
  <2> QED  BY <1>7
<1> QED  BY <1>1, <1>5, <1>7, <1>8

\* Stay puts another frame in the place of the one on top.
LEMMA StayFrames ==
  ASSUME TypeOK, frames # <<>>, NEW f \in Frames, Stay(f)
  PROVE  /\ frames' \in Seq(Frames) /\ Len(frames') = Len(frames) /\ frames'[Len(frames)] = f
         /\ \A i \in 1..(Len(frames) - 1) : frames'[i] = frames[i]
<1>1. frames' = Append(Below, f)  BY DEF Stay
<1>2. /\ Append(Below, f) \in Seq(Frames) /\ Len(Append(Below, f)) = Len(Below) + 1
      /\ \A i \in 1..Len(Below) : Append(Below, f)[i] = Below[i]
      /\ Append(Below, f)[Len(Below) + 1] = f
  BY TopFrame, AppendProperties
<1> QED  BY <1>1, <1>2, TopFrame

\* Enter puts frames on top.
LEMMA EnterFrames ==
  ASSUME TypeOK, NEW new \in Seq(Frames), Enter(new)
  PROVE  /\ frames' \in Seq(Frames) /\ Len(frames') = Len(frames) + Len(new)
         /\ \A i \in 1..Len(frames) : frames'[i] = frames[i]
         /\ \A i \in 1..Len(new) : frames'[Len(frames) + i] = new[i]
<1>1. frames \in Seq(Frames) /\ Len(frames) \in Nat /\ Len(new) \in Nat  BY LenProperties DEF TypeOK
<1>2. /\ frames \o new \in Seq(Frames) /\ Len(frames \o new) = Len(frames) + Len(new)
      /\ \A i \in 1..(Len(frames) + Len(new)) :
           (frames \o new)[i] = IF i <= Len(frames) THEN frames[i] ELSE new[i - Len(frames)]
  BY <1>1, ConcatProperties
<1> QED  BY <1>1, <1>2 DEF Enter

\* A nonempty set of positions has a largest one.
LEMMA LargestOf ==
  ASSUME NEW n \in Nat, NEW S \in SUBSET (1..n), S # {}
  PROVE  Max(S) \in S /\ \A j \in S : j <= Max(S)
<1> DEFINE T == {n - x : x \in S}
<1>1. T \subseteq Nat /\ T # {}
  <2>1. \A x \in S : n - x \in Nat  OBVIOUS
  <2>2. PICK x \in S : TRUE  OBVIOUS
  <2>3. n - x \in T  BY <2>2
  <2> QED  BY <2>1, <2>3
<1>2. \E x \in T : \A y \in T : ~(<<y, x>> \in OpToRel(<, Nat))
  BY <1>1, NatLessThanWellFounded, WFMin
<1>3. PICK x \in T : \A y \in T : ~(<<y, x>> \in OpToRel(<, Nat))  BY <1>2
<1>4. \A y \in T : x <= y
  <2> TAKE y \in T
  <2>1. x \in Nat /\ y \in Nat  BY <1>1
  <2>2. SUFFICES ~(y < x)  BY <2>1
  <2>3. y < x => <<y, x>> \in OpToRel(<, Nat)  BY <2>1 DEF OpToRel
  <2> QED  BY <1>3, <2>3
<1>5. PICK m \in S : x = n - m  BY <1>3
<1>6. \A j \in S : m >= j
  <2> TAKE j \in S
  <2>1. n - j \in T  OBVIOUS
  <2>2. x <= n - j  BY <1>4, <2>1
  <2> QED  BY <1>5, <2>2
<1> QED  BY <1>5, <1>6 DEF Max

\* The calls of functions are positions, and the innermost is one of them.
LEMMA InnermostCall ==
  ASSUME TypeOK, Calls # {}
  PROVE  Max(Calls) \in Calls /\ (\A j \in Calls : j <= Max(Calls)) /\ Calls \subseteq 1..Len(frames)
<1>1. Len(frames) \in Nat /\ DOMAIN frames = 1..Len(frames)  BY LenProperties DEF TypeOK
<1>2. Calls \in SUBSET (1..Len(frames))  BY <1>1 DEF Calls
<1> QED  BY <1>1, <1>2, LargestOf

\* Return changes what the innermost call has said, and no other frame.
LEMMA ReturnFrames ==
  ASSUME TypeOK, NEW v \in Values, Return(v)
  PROVE  /\ frames' \in Seq(Frames) /\ Len(frames') = Len(frames)
         /\ \A i \in 1..Len(frames) : frames'[i].kind = frames[i].kind
         /\ \A i \in 1..Len(frames) : frames[i].kind # "function" => frames'[i] = frames[i]
         /\ \A i \in Calls : (\A j \in Calls : j <= i) => frames'[i].said = v
<1>1. /\ frames \in Seq(Frames) /\ Len(frames) \in Nat /\ DOMAIN frames = 1..Len(frames)
      /\ \A i \in 1..Len(frames) : frames[i] \in Frames
  BY LenProperties, ElementOfSeq DEF TypeOK
<1>2. CASE Calls = {}
  BY <1>1, <1>2 DEF Return
<1>3. CASE Calls # {}
  <2> DEFINE m == Max(Calls)
             f == [frames[m] EXCEPT !.said = v]
  <2>1. m \in Calls /\ (\A j \in Calls : j <= m) /\ m \in 1..Len(frames) /\ Calls \subseteq 1..Len(frames)
    BY <1>3, InnermostCall
  <2>2. frames[m] \in [kind : {"function"}, prev : Values \cup {Unset}, said : Values]
    BY <1>1, <2>1, FrameFields DEF Calls
  <2>3. f \in [kind : {"function"}, prev : Values \cup {Unset}, said : Values]  BY <2>2
  <2>4. f \in Frames /\ f.kind = "function" /\ f.said = v  BY <2>2, <2>3 DEF Frames
  <2>5. frames' = [frames EXCEPT ![m] = f]  BY <1>3 DEF Return
  <2> HIDE DEF f, m
  <2>6. frames' \in Seq(Frames) /\ Len(frames') = Len(frames)
        /\ \A j \in 1..Len(frames) : frames'[j] = IF j = m THEN f ELSE frames[j]
    BY <1>1, <2>1, <2>4, <2>5, ExceptSeq
  <2>7. \A i \in Calls : (\A j \in Calls : j <= i) => i = m  BY <2>1
  <2>8. frames[m].kind = "function"  BY <2>1 DEF Calls
  <2> QED  BY <2>1, <2>4, <2>6, <2>7, <2>8
<1> QED  BY <1>2, <1>3

-----------------------------------------------------------------------------
(* What a step does to the frames.                                         *)

Signals == {"ok", "exit", "return"} \cup Codes
OneFrame == Statements \ {"set"}

\* The variables a loop takes over are noted in a sequence.
LEMMA SavedTyped ==
  ASSUME TypeOK, NEW keys \in Seq(Vars)
  PROVE  /\ Saved(keys) \in Seq([key : Vars, was : Values \cup {Unset}])
         /\ DOMAIN Saved(keys) = DOMAIN keys
         /\ \A i \in DOMAIN keys : Saved(keys)[i].key = keys[i]
<1> DEFINE R == [key : Vars, was : Values \cup {Unset}]
           e(i) == [key |-> keys[i],
                    was |-> IF \E j \in 1..(i - 1) : keys[j] = keys[i] THEN Unset ELSE scope[keys[i]]]
<1>1. Len(keys) \in Nat /\ DOMAIN keys = 1..Len(keys) /\ \A i \in 1..Len(keys) : keys[i] \in Vars
  BY LenProperties, ElementOfSeq
<1>2. \A i \in 1..Len(keys) : e(i) \in R  BY <1>1 DEF TypeOK
<1>3. Saved(keys) = [i \in 1..Len(keys) |-> e(i)]  BY <1>1 DEF Saved
<1>4. [i \in 1..Len(keys) |-> e(i)] \in [1..Len(keys) -> R]
  <2> HIDE DEF R, e
  <2> QED  BY <1>2
<1>5. [i \in 1..Len(keys) |-> e(i)] \in Seq(R)
  <2> HIDE DEF R, e
  <2> QED  BY <1>1, <1>4, SeqDef
<1>6. DOMAIN Saved(keys) = DOMAIN keys /\ \A i \in DOMAIN keys : Saved(keys)[i].key = keys[i]
  BY <1>1, <1>3
<1> QED  BY <1>3, <1>5, <1>6

\* Every action is a statement without a body, or enters, leaves, or goes on.
Skeleton ==
  \/ StartBatch \/ EndBatch \/ FailBatch
  \/ \E sig \in Signals \ {"return"} : Simple(sig)
  \/ \E f \in Frames : Enter(<<f>>) /\ f.kind \in OneFrame /\ (DistinctColumns => NamesOnce(f))
  \/ \E f, g \in Frames : Enter(<<f, g>>) /\ f.kind = "set" /\ g.kind = "function"
  \/ \E v \in Values : Return(v)
  \/ /\ frames # <<>> /\ Top.kind \in OneFrame /\ UNCHANGED pending
     /\ \E sig \in Signals : Leave(1, sig) /\ (sig = "return" => signal = "return")
  \/ frames # <<>> /\ Top.kind = "function" /\ \E sig \in Signals \ {"return"} : Leave(2, sig)
  \/ /\ frames # <<>> /\ Top.kind \in OneFrame
     /\ \E f \in Frames : Stay(f) /\ f.kind = Top.kind /\ (f.kind \in {"for", "rows"} => f.saved = Top.saved)
  \/ FireTrigger \/ LeaveTrigger

\* Transaction statements have no body.
LEMMA TransactionSkeleton ==
  ASSUME TypeOK, Transaction
  PROVE  Skeleton
BY DEF Transaction, Begin, Commit, Rollback, Savepoint, RollbackTo, Release, Skeleton, Signals, Codes

\* Control statements enter at most one call, or a SET and its function.
LEMMA ControlSkeleton ==
  ASSUME TypeOK, Control
  PROVE  Skeleton
<1>1. ASSUME NEW x \in Names, Declare(x) \/ SetVariable(x)  PROVE Skeleton
  BY <1>1 DEF Declare, SetVariable, Skeleton, Signals, Codes
<1>2. ASSUME NEW x \in Names, CallFunction(x)  PROVE Skeleton
  <2> DEFINE f == [kind |-> "set", key |-> x]
             g == [kind |-> "function", prev |-> pending, said |-> Null]
  <2>1. f \in Frames /\ g \in Frames  BY DEF TypeOK, Frames, Values
  <2>2. Enter(<<f, g>>) /\ f.kind = "set" /\ g.kind = "function"  BY <1>2 DEF CallFunction
  <2> QED  BY <2>1, <2>2 DEF Skeleton
<1>3. CASE Exit \/ Raise
  BY <1>3 DEF Exit, Raise, Skeleton, Signals, Codes
<1>4. CASE If \/ Call
  <2> DEFINE f == [kind |-> "branch"]
  <2>1. f \in Frames /\ f.kind \in OneFrame /\ NamesOnce(f)  BY DEF Frames, OneFrame, Statements, NamesOnce
  <2>2. Enter(<<f>>) \/ Simple("ok") \/ Simple("range") \/ Simple("data")  BY <1>4 DEF If, Call
  <2> QED  BY <2>1, <2>2 DEF Skeleton, Signals, Codes
<1>5. ASSUME NEW h \in Handlers, Block(h)  PROVE Skeleton
  <2> DEFINE f == [kind |-> "block", handlers |-> h, caught |-> FALSE]
  <2>1. f \in Frames /\ f.kind \in OneFrame /\ NamesOnce(f)  BY DEF Frames, OneFrame, Statements, NamesOnce
  <2> QED  BY <1>5, <2>1 DEF Block, Skeleton
<1>6. ASSUME NEW c \in BOOLEAN, Loop(c)  PROVE Skeleton
  <2> DEFINE f == [kind |-> "loop", cond |-> c, iter |-> 0]
  <2>1. f \in Frames /\ f.kind \in OneFrame /\ NamesOnce(f)  BY DEF Frames, OneFrame, Statements, NamesOnce
  <2> QED  BY <1>6, <2>1 DEF Loop, Skeleton
<1>7. ASSUME NEW x \in Names, NEW range \in Ranges, For(x, range)  PROVE Skeleton
  <2> DEFINE by == IF range.reverse THEN Negated(Magnitude(range.step)) ELSE Magnitude(range.step)
             f == [kind |-> "for", saved |-> Saved(<<x>>), iter |-> 0, at |-> range.from, to |-> range.to, by |-> by]
  <2>1. range \in [from : Ints, to : Ints, step : Ints, reverse : BOOLEAN]  OBVIOUS
  <2>2. by \in Ints  BY <2>1 DEF Ints, Negated, Magnitude
  <2>3. CASE by = 0 \/ ~InRange(range.from, range.to, by)
    BY <1>7, <2>3 DEF For, Skeleton, Signals, Codes
  <2>4. CASE by # 0 /\ InRange(range.from, range.to, by)
    <3>1. <<x>> \in Seq(Vars) /\ DOMAIN <<x>> = 1..1  BY DEF Vars
    <3>2. Saved(<<x>>) \in Seq([key : Vars, was : Values \cup {Unset}]) /\ DOMAIN Saved(<<x>>) = 1..1
      BY <3>1, SavedTyped
    <3>3. f \in Frames /\ f.kind \in OneFrame
      <4> HIDE DEF by
      <4> QED  BY <2>1, <2>2, <2>4, <3>2 DEF Frames, OneFrame, Statements
    <3>4. NamesOnce(f)  BY <3>2 DEF NamesOnce
    <3>5. Enter(<<f>>)  BY <1>7, <2>4 DEF For
    <3> QED  BY <3>3, <3>4, <3>5 DEF Skeleton
  <2> QED  BY <2>3, <2>4
<1>8. ASSUME NEW keys \in Columns, NEW rows \in 0..(MaxLoop + 1), ForRows(keys, rows)  PROVE Skeleton
  <2> DEFINE f == [kind |-> "rows", saved |-> Saved(keys), iter |-> 0, rows |-> rows]
  <2>1. keys \in Seq(Vars)  BY SeqMonotonic DEF Vars
  <2>2. /\ Saved(keys) \in Seq([key : Vars, was : Values \cup {Unset}])
        /\ DOMAIN Saved(keys) = DOMAIN keys /\ \A i \in DOMAIN keys : Saved(keys)[i].key = keys[i]
    BY <2>1, SavedTyped
  <2>3. f \in Frames /\ f.kind \in OneFrame  BY <2>2 DEF Frames, OneFrame, Statements
  <2>4. DistinctColumns => NamesOnce(f)  BY <2>2 DEF DistinctColumns, NamesOnce
  <2>5. Simple("ok") \/ Enter(<<f>>)  BY <1>8 DEF ForRows
  <2> QED  BY <2>3, <2>4, <2>5 DEF Skeleton, Signals
<1>9. ASSUME NEW v \in {0, 1}, Return(v)  PROVE Skeleton
  <2>1. v \in Values  BY DEF Values, Ints
  <2> QED  BY <1>9, <2>1 DEF Skeleton
<1> QED
  BY <1>1, <1>2, <1>3, <1>4, <1>5, <1>6, <1>7, <1>8, <1>9 DEF Control

\* An INSERT enters a call when it has triggers.
LEMMA DataSkeleton ==
  ASSUME TypeOK, Data
  PROVE  Skeleton
<1>1. CASE Insert
  BY <1>1 DEF Insert, Skeleton, Signals, Codes
<1>2. ASSUME NEW n \in {0, 1}, InsertWithTriggers(n)  PROVE Skeleton
  <2> DEFINE f == [kind |-> "dml", id |-> count, written |-> FALSE, left |-> n]
  <2>1. f \in Frames /\ f.kind \in OneFrame /\ NamesOnce(f)
    BY DEF TypeOK, Frames, OneFrame, Statements, NamesOnce
  <2> QED  BY <1>2, <2>1 DEF InsertWithTriggers, Skeleton
<1> QED  BY <1>1, <1>2 DEF Data

\* What goes on or ends concerns the frame on top, which has the fields of its kind.
LEMMA ProceedsSkeleton ==
  ASSUME TypeOK, Proceeds
  PROVE  Skeleton
<1>1. CASE EndBatch \/ FailBatch
  BY <1>1 DEF Skeleton
<1>a. frames # <<>>
  BY DEF Proceeds, EndBatch, FailBatch, EndBody, Catch, FailBody, TurnLoop, ExitLoop, TurnFor, TurnRows, BreakFor,
         FunctionReturns, FunctionEnds, FunctionFails, FireTrigger, LeaveTrigger, EndInsert, WriteRow, Running, Failing
<1>b. Top \in Frames /\ signal \in Signals
  BY <1>a, TopFrame DEF TypeOK, Signals
<1>2. CASE EndBody \/ EndInsert
  BY <1>2, <1>a DEF EndBody, EndInsert, Skeleton, OneFrame, Statements, Signals
<1>3. CASE Catch
  <2> DEFINE f == [Top EXCEPT !.caught = TRUE]
  <2>1. Top \in [kind : {"block"}, handlers : Handlers, caught : BOOLEAN]
    BY <1>3, <1>b, FrameFields DEF Catch, Catches
  <2>2. f \in [kind : {"block"}, handlers : Handlers, caught : BOOLEAN]  BY <2>1
  <2>3. f \in Frames /\ f.kind = Top.kind /\ Top.kind = "block"  BY <2>1, <2>2 DEF Frames
  <2>4. Stay(f)  BY <1>3 DEF Catch
  <2> HIDE DEF f
  <2> QED  BY <1>a, <2>3, <2>4 DEF Skeleton, OneFrame, Statements
<1>4. CASE FailBody
  BY <1>4, <1>a, <1>b DEF FailBody, Skeleton, OneFrame, Statements
<1>5. CASE TurnLoop
  <2> DEFINE f == [Top EXCEPT !.iter = Top.iter + 1]
  <2>1. Top \in [kind : {"loop"}, cond : BOOLEAN, iter : 0..(MaxLoop - 1)]
    BY <1>5, <1>b, FrameFields DEF TurnLoop
  <2>2. CASE \E sig \in {"ok", "range", "limit"} : Leave(1, sig)
    BY <1>5, <2>2, <1>a, <2>1 DEF TurnLoop, Skeleton, OneFrame, Statements, Signals, Codes
  <2>3. CASE Top.iter + 1 < MaxLoop /\ Stay(f)
    <3>1. f \in [kind : {"loop"}, cond : BOOLEAN, iter : 0..(MaxLoop - 1)]  BY <2>1, <2>3
    <3>2. f \in Frames /\ f.kind = Top.kind /\ Top.kind = "loop"  BY <2>1, <3>1 DEF Frames
    <3> HIDE DEF f
    <3> QED  BY <1>a, <2>3, <3>2 DEF Skeleton, OneFrame, Statements
  <2> QED  BY <1>5, <2>2, <2>3 DEF TurnLoop
<1>6. CASE ExitLoop
  BY <1>6, <1>a DEF ExitLoop, Skeleton, OneFrame, Statements, Signals
<1>7. CASE TurnFor
  <2> DEFINE i == Stepped(Top.at, Top.by)
             f == [Top EXCEPT !.iter = Top.iter + 1, !.at = i]
             K == [kind : {"for"}, saved : Seq([key : Vars, was : Values \cup {Unset}]),
                   iter : 0..(MaxLoop - 1), at : Ints, to : Ints, by : Ints \ {0}]
  <2>1. Top \in K  BY <1>7, <1>b, FrameFields DEF TurnFor
  <2>2. CASE Leave(1, "ok") \/ Leave(1, "limit")
    BY <1>7, <2>2, <1>a, <2>1 DEF TurnFor, Skeleton, OneFrame, Statements, Signals, Codes
  <2>3. CASE Top.iter + 1 # MaxLoop /\ Stay(f)
    <3>1. i \in Ints  BY <2>1 DEF Stepped, Ints
    <3>2. Top.iter + 1 \in 0..(MaxLoop - 1)  BY <2>1, <2>3
    <3>3. f \in K /\ f.saved = Top.saved /\ f.kind = "for"
      <4> HIDE DEF i
      <4> QED  BY <2>1, <3>1, <3>2
    <3>4. f \in Frames /\ f.kind = Top.kind /\ Top.kind = "for"  BY <2>1, <3>3 DEF Frames
    <3> HIDE DEF f
    <3> QED  BY <1>a, <2>3, <3>3, <3>4 DEF Skeleton, OneFrame, Statements
  <2> QED  BY <1>7, <2>2, <2>3 DEF TurnFor
<1>8. CASE TurnRows
  <2> DEFINE f == [Top EXCEPT !.iter = Top.iter + 1]
             K == [kind : {"rows"}, saved : Seq([key : Vars, was : Values \cup {Unset}]),
                   iter : 0..(MaxLoop - 1), rows : Nat]
  <2>1. Top \in K  BY <1>8, <1>b, FrameFields DEF TurnRows
  <2>2. CASE Leave(1, "ok") \/ Leave(1, "limit")
    BY <1>8, <2>2, <1>a, <2>1 DEF TurnRows, Skeleton, OneFrame, Statements, Signals, Codes
  <2>3. CASE Top.iter + 1 # MaxLoop /\ Stay(f)
    <3>1. Top.iter + 1 \in 0..(MaxLoop - 1)  BY <2>1, <2>3
    <3>2. f \in K /\ f.saved = Top.saved /\ f.kind = "rows"  BY <2>1, <3>1
    <3>3. f \in Frames /\ f.kind = Top.kind /\ Top.kind = "rows"  BY <2>1, <3>2 DEF Frames
    <3> HIDE DEF f
    <3> QED  BY <1>a, <2>3, <3>2, <3>3 DEF Skeleton, OneFrame, Statements
  <2> QED  BY <1>8, <2>2, <2>3 DEF TurnRows
<1>9. CASE BreakFor
  <2> DEFINE sig == IF signal = "exit" THEN "ok" ELSE signal
  <2>1. /\ Leave(1, sig) /\ sig \in Signals /\ (sig = "return" => signal = "return")
        /\ Top.kind \in OneFrame /\ UNCHANGED pending
    BY <1>9, <1>b DEF BreakFor, OneFrame, Statements, Signals
  <2> HIDE DEF sig
  <2> QED  BY <1>a, <2>1 DEF Skeleton
<1>10. CASE FunctionReturns \/ FunctionEnds \/ FunctionFails
  BY <1>10, <1>a, <1>b DEF FunctionReturns, FunctionEnds, FunctionFails, Skeleton, Signals
<1>11. CASE FireTrigger \/ LeaveTrigger
  BY <1>11 DEF Skeleton
<1>12. ASSUME NEW n \in {0, 1}, WriteRow(n)  PROVE Skeleton
  <2> DEFINE f == [Top EXCEPT !.written = TRUE, !.left = n]
             K == [kind : {"dml"}, id : 0..MaxStatements, written : BOOLEAN, left : Nat]
  <2>1. Top \in K  BY <1>12, <1>b, FrameFields DEF WriteRow
  <2>2. CASE Leave(1, "data")
    BY <1>12, <2>2, <1>a, <2>1 DEF WriteRow, Skeleton, OneFrame, Statements, Signals, Codes
  <2>3. CASE Stay(f)
    <3>1. f \in K /\ f.kind = "dml"
      <4>1. [Top EXCEPT !.written = TRUE] \in K  BY <2>1
      <4>2. [[Top EXCEPT !.written = TRUE] EXCEPT !.left = n] \in K
        <5> DEFINE g == [Top EXCEPT !.written = TRUE]
        <5> HIDE DEF g
        <5>1. g \in K  BY <4>1 DEF g
        <5>2. [g EXCEPT !.left = n] \in K  BY <5>1
        <5> QED  BY <5>2 DEF g
      <4>3. f = [[Top EXCEPT !.written = TRUE] EXCEPT !.left = n]  OBVIOUS
      <4> QED  BY <2>1, <4>2, <4>3
    <3>2. f \in Frames /\ f.kind = Top.kind /\ Top.kind = "dml"  BY <2>1, <3>1 DEF Frames
    <3> HIDE DEF f
    <3> QED  BY <1>a, <2>3, <3>2 DEF Skeleton, OneFrame, Statements
  <2> QED  BY <1>12, <2>2, <2>3 DEF WriteRow
<1> QED
  BY <1>1, <1>2, <1>3, <1>4, <1>5, <1>6, <1>7, <1>8, <1>9, <1>10, <1>11, <1>12 DEF Proceeds

\* Every step has this shape.
LEMMA Skeletal == ASSUME TypeOK, Next PROVE Skeleton
BY TransactionSkeleton, ControlSkeleton, DataSkeleton, ProceedsSkeleton DEF Next, Skeleton

-----------------------------------------------------------------------------
(* Nesting and counters.                                                   *)

Kept(n) == \A i \in 1..n : frames'[i].kind = frames[i].kind

\* How the stack moves, by the kinds of its frames, and its counters with it.
Goes     == Len(frames') = Len(frames) /\ Kept(Len(frames)) /\ UNCHANGED <<execDepth, triggerDepth>>
Starts1  == frames = <<>> /\ Len(frames') = 1 /\ frames'[1].kind = "batch" /\ UNCHANGED <<execDepth, triggerDepth>>
Ends     == frames # <<>> /\ Top.kind = "batch" /\ frames' = <<>> /\ UNCHANGED <<execDepth, triggerDepth>>
Enters   == /\ frames # <<>> /\ Len(frames') = Len(frames) + 1 /\ Kept(Len(frames))
            /\ frames'[Len(frames) + 1].kind \in OneFrame
            /\ execDepth' = execDepth + 1 /\ UNCHANGED triggerDepth
EntersFn == /\ frames # <<>> /\ Len(frames') = Len(frames) + 2 /\ Kept(Len(frames))
            /\ frames'[Len(frames) + 1].kind = "set" /\ frames'[Len(frames) + 2].kind = "function"
            /\ execDepth' = execDepth + 1 /\ UNCHANGED triggerDepth
Fires    == /\ frames # <<>> /\ Top.kind = "dml" /\ Len(frames') = Len(frames) + 1 /\ Kept(Len(frames))
            /\ frames'[Len(frames) + 1].kind = "trigger"
            /\ ~(triggerDepth >= MaxTriggerDepth) /\ triggerDepth' = triggerDepth + 1 /\ UNCHANGED execDepth
Leaves   == /\ frames # <<>> /\ Top.kind \in OneFrame /\ Len(frames') = Len(frames) - 1 /\ Kept(Len(frames) - 1)
            /\ execDepth' = execDepth - 1 /\ UNCHANGED triggerDepth
LeavesFn == /\ frames # <<>> /\ Top.kind = "function" /\ Len(frames') = Len(frames) - 2 /\ Kept(Len(frames) - 2)
            /\ execDepth' = execDepth - 1 /\ UNCHANGED triggerDepth
LeavesTr == /\ frames # <<>> /\ Top.kind = "trigger" /\ Len(frames') = Len(frames) - 1 /\ Kept(Len(frames) - 1)
            /\ triggerDepth' = triggerDepth - 1 /\ UNCHANGED execDepth

Moves == Goes \/ Starts1 \/ Ends \/ Enters \/ EntersFn \/ Fires \/ Leaves \/ LeavesFn \/ LeavesTr

\* A trigger is entered, refused at the limit, or left.
LEMMA FiringMoves ==
  ASSUME TypeOK, frames # <<>>, FireTrigger \/ LeaveTrigger
  PROVE  frames' \in Seq(Frames) /\ (Fires \/ Leaves \/ LeavesTr)
<1>1. CASE FireTrigger /\ triggerDepth >= MaxTriggerDepth
  <2>1. Leave(1, "depth") /\ Top.kind \in OneFrame  BY <1>1 DEF FireTrigger, OneFrame, Statements
  <2>2. 1 \in 0..Len(frames)  BY TopFrame
  <2>3. frames' \in Seq(Frames) /\ Len(frames') = Len(frames) - 1
        /\ \A i \in 1..(Len(frames) - 1) : frames'[i] = frames[i]
    BY <2>1, <2>2, LeaveFrames
  <2> QED  BY <2>1, <2>3 DEF Leave, Leaves, Kept
<1>2. CASE FireTrigger /\ ~(triggerDepth >= MaxTriggerDepth)
  <2> DEFINE f == [Top EXCEPT !.left = Top.left - 1]
             g == [kind |-> "trigger"]
             K == [kind : {"dml"}, id : 0..MaxStatements, written : BOOLEAN, left : Nat]
  <2>1. Top \in K /\ Top.left > 0  BY <1>2, TopFrame, FrameFields DEF FireTrigger
  <2>2. f \in K  BY <2>1
  <2>3. f \in Frames /\ g \in Frames /\ f.kind = "dml" /\ g.kind = "trigger"  BY <2>2 DEF Frames
  <2>4. frames' = Below \o <<f, g>> /\ triggerDepth' = triggerDepth + 1 /\ UNCHANGED execDepth
        /\ Top.kind = "dml" /\ ~(triggerDepth >= MaxTriggerDepth)
    BY <1>2 DEF FireTrigger
  <2> HIDE DEF f, g, K
  <2>5. <<f, g>> \in Seq(Frames) /\ Len(<<f, g>>) = 2 /\ <<f, g>>[1] = f /\ <<f, g>>[2] = g  BY <2>3
  <2>6. /\ Below \o <<f, g>> \in Seq(Frames) /\ Len(Below \o <<f, g>>) = Len(Below) + 2
        /\ \A i \in 1..(Len(Below) + 2) :
             (Below \o <<f, g>>)[i] = IF i <= Len(Below) THEN Below[i] ELSE <<f, g>>[i - Len(Below)]
    BY <2>5, TopFrame, ConcatProperties
  <2> DEFINE n == Len(frames)
  <2>7. /\ n \in Nat \ {0} /\ Len(Below) = n - 1 /\ frames' \in Seq(Frames) /\ Len(frames') = n + 1
        /\ \A i \in 1..(n - 1) : frames'[i] = frames[i]
        /\ frames'[n] = f /\ frames'[n + 1] = g
    <3>1. n \in Nat \ {0} /\ Len(Below) = n - 1 /\ \A i \in 1..(n - 1) : Below[i] = frames[i]  BY TopFrame
    <3>2. \A i \in 1..(n + 1) : frames'[i] = IF i <= n - 1 THEN Below[i] ELSE <<f, g>>[i - (n - 1)]
      BY <2>4, <2>6, <3>1
    <3>3. Len(frames') = n + 1  BY <2>4, <2>6, <3>1
    <3>4. frames'[n] = <<f, g>>[1] /\ frames'[n + 1] = <<f, g>>[2]
      <4> HIDE DEF n
      <4>1. n - (n - 1) = 1 /\ n + 1 - (n - 1) = 2  BY <3>1
      <4> QED  BY <3>1, <3>2, <4>1
    <3> QED  BY <2>4, <2>5, <2>6, <3>1, <3>2, <3>3, <3>4
  <2>8. Kept(n)
    <3>1. frames[n].kind = "dml"  BY <2>4 DEF Top
    <3> QED  BY <2>3, <2>7, <3>1 DEF Kept
  <2> QED  BY <2>3, <2>4, <2>7, <2>8 DEF Fires
<1>3. CASE LeaveTrigger
  BY <1>3, TopFrame DEF LeaveTrigger, LeavesTr, Kept
<1> QED  BY <1>1, <1>2, <1>3 DEF FireTrigger

\* Below a function is the SET that calls it.
LEMMA FunctionIsCalled ==
  ASSUME TypeOK, NestingOK, frames # <<>>, Top.kind = "function"
  PROVE  Len(frames) >= 2 /\ frames[Len(frames) - 1].kind = "set"
<1>1. Len(frames) \in Nat \ {0}  BY TopFrame
<1> QED  BY <1>1 DEF NestingOK, Top

\* Every step moves the stack in one of these ways.
LEMMA SkeletonMoves ==
  ASSUME TypeOK, NestingOK, [Next]_vars
  PROVE  frames' \in Seq(Frames) /\ Moves
<1>0. frames \in Seq(Frames) /\ Len(frames) \in Nat  BY LenProperties DEF TypeOK
<1>1. CASE UNCHANGED vars
  BY <1>1, <1>0 DEF vars, calls, Moves, Goes, Kept
<1>2. CASE StartBatch
  <2>1. [kind |-> "batch"] \in Frames  BY DEF Frames
  <2>2. frames' = <<[kind |-> "batch"]>>  BY <1>2 DEF StartBatch
  <2>3. frames' \in Seq(Frames) /\ Len(frames') = 1 /\ frames'[1] = [kind |-> "batch"]  BY <2>1, <2>2
  <2> QED  BY <1>2, <2>3 DEF StartBatch, Moves, Starts1
<1>3. CASE EndBatch \/ FailBatch
  <2>1. frames' = <<>> /\ frames # <<>> /\ Top.kind = "batch" /\ UNCHANGED <<execDepth, triggerDepth>>
    BY <1>3 DEF EndBatch, FailBatch, Running, Failing
  <2> QED  BY <2>1 DEF Moves, Ends
<1>4. ASSUME NEW sig \in Signals \ {"return"}, Simple(sig)  PROVE frames' \in Seq(Frames) /\ Moves
  BY <1>0, <1>4 DEF Simple, Moves, Goes, Kept
<1>5. ASSUME NEW f \in Frames, Enter(<<f>>), f.kind \in OneFrame  PROVE frames' \in Seq(Frames) /\ Moves
  <2> DEFINE new == <<f>>
  <2>1. new \in Seq(Frames) /\ Len(new) = 1 /\ new[1] = f /\ Enter(new)  BY <1>5
  <2> HIDE DEF new
  <2>a. /\ frames' \in Seq(Frames) /\ Len(frames') = Len(frames) + Len(new)
        /\ \A i \in 1..Len(frames) : frames'[i] = frames[i]
        /\ \A i \in 1..Len(new) : frames'[Len(frames) + i] = new[i]
    BY <2>1, EnterFrames
  <2>2. /\ frames' \in Seq(Frames) /\ Len(frames') = Len(frames) + 1
        /\ \A i \in 1..Len(frames) : frames'[i] = frames[i]
        /\ frames'[Len(frames) + 1] = f
    BY <2>1, <2>a
  <2>3. frames # <<>> /\ execDepth' = execDepth + 1 /\ UNCHANGED triggerDepth  BY <1>5 DEF Enter, Starts, Running
  <2> QED  BY <1>5, <2>2, <2>3 DEF Moves, Enters, Kept
<1>6. ASSUME NEW f \in Frames, NEW g \in Frames, Enter(<<f, g>>), f.kind = "set", g.kind = "function"
      PROVE  frames' \in Seq(Frames) /\ Moves
  <2> DEFINE new == <<f, g>>
  <2>1. new \in Seq(Frames) /\ Len(new) = 2 /\ new[1] = f /\ new[2] = g /\ Enter(new)  BY <1>6
  <2> HIDE DEF new
  <2>a. /\ frames' \in Seq(Frames) /\ Len(frames') = Len(frames) + Len(new)
        /\ \A i \in 1..Len(frames) : frames'[i] = frames[i]
        /\ \A i \in 1..Len(new) : frames'[Len(frames) + i] = new[i]
    BY <2>1, EnterFrames
  <2>2. /\ frames' \in Seq(Frames) /\ Len(frames') = Len(frames) + 2
        /\ \A i \in 1..Len(frames) : frames'[i] = frames[i]
        /\ frames'[Len(frames) + 1] = f /\ frames'[Len(frames) + 2] = g
    BY <2>1, <2>a
  <2>3. frames # <<>> /\ execDepth' = execDepth + 1 /\ UNCHANGED triggerDepth  BY <1>6 DEF Enter, Starts, Running
  <2> QED  BY <1>6, <2>2, <2>3 DEF Moves, EntersFn, Kept
<1>7. ASSUME NEW v \in Values, Return(v)  PROVE frames' \in Seq(Frames) /\ Moves
  BY <1>7, ReturnFrames DEF Return, Moves, Goes, Kept
<1>8. ASSUME frames # <<>>, Top.kind \in OneFrame, NEW sig \in Signals, Leave(1, sig)
      PROVE  frames' \in Seq(Frames) /\ Moves
  <2>1. 1 \in 0..Len(frames)  BY <1>8, TopFrame
  <2>2. frames' \in Seq(Frames) /\ Len(frames') = Len(frames) - 1
        /\ \A i \in 1..(Len(frames) - 1) : frames'[i] = frames[i]
    BY <1>8, <2>1, LeaveFrames
  <2> QED  BY <1>8, <2>2 DEF Leave, Moves, Leaves, Kept
<1>9. ASSUME frames # <<>>, Top.kind = "function", NEW sig \in Signals, Leave(2, sig)
      PROVE  frames' \in Seq(Frames) /\ Moves
  <2>1. 2 \in 0..Len(frames)  BY <1>0, <1>9, FunctionIsCalled
  <2>2. frames' \in Seq(Frames) /\ Len(frames') = Len(frames) - 2
        /\ \A i \in 1..(Len(frames) - 2) : frames'[i] = frames[i]
    BY <1>9, <2>1, LeaveFrames
  <2> QED  BY <1>9, <2>2 DEF Leave, Moves, LeavesFn, Kept
<1>10. ASSUME frames # <<>>, NEW f \in Frames, Stay(f), f.kind = Top.kind  PROVE frames' \in Seq(Frames) /\ Moves
  <2>1. /\ frames' \in Seq(Frames) /\ Len(frames') = Len(frames) /\ frames'[Len(frames)] = f
        /\ \A i \in 1..(Len(frames) - 1) : frames'[i] = frames[i]
    BY <1>10, StayFrames
  <2>2. frames[Len(frames)].kind = f.kind  BY <1>10 DEF Top
  <2>3. Kept(Len(frames))  BY <1>0, <2>1, <2>2 DEF Kept
  <2> QED  BY <1>10, <2>1, <2>3 DEF Stay, Moves, Goes
<1>11. CASE FireTrigger \/ LeaveTrigger
  <2>1. frames # <<>>  BY <1>11 DEF FireTrigger, LeaveTrigger, Running
  <2> QED  BY <1>11, <2>1, FiringMoves DEF Moves
<1> QED
  BY <1>1, <1>2, <1>3, <1>4, <1>5, <1>6, <1>7, <1>8, <1>9, <1>10, <1>11, Skeletal DEF Skeleton

\* Calls nest as NestingOK says, whatever is entered or left.
LEMMA NestingStep ==
  ASSUME TypeOK, NestingOK, frames' \in Seq(Frames), Moves
  PROVE  NestingOK'
<1> DEFINE n == Len(frames)
           m == Len(frames')
           old(i) == frames[i].kind
           new(i) == frames'[i].kind
<1>0. n \in Nat /\ m \in Nat /\ (frames' = <<>> <=> m = 0) /\ (frames = <<>> <=> n = 0)
  <2>1. frames \in Seq(Frames)  BY DEF TypeOK
  <2>2. n \in Nat /\ m \in Nat  BY <2>1, LenProperties
  <2> QED  BY <2>1, <2>2, EmptySeq
<1>a. n # 0 => old(1) = "batch" /\ Top.kind = old(n)  BY <1>0 DEF NestingOK, Top
<1>b. \A i \in 1..n :
       /\ old(i) = "batch" => i = 1
       /\ old(i) = "function" => i > 1 /\ old(i - 1) = "set"
       /\ old(i) = "trigger" => i > 1 /\ old(i - 1) = "dml"
       /\ old(i) = "set" => i < n /\ old(i + 1) = "function"
  BY DEF NestingOK
<1>c. ASSUME m # 0 => new(1) = "batch",
             \A i \in 1..m :
               /\ new(i) = "batch" => i = 1
               /\ new(i) = "function" => i > 1 /\ new(i - 1) = "set"
               /\ new(i) = "trigger" => i > 1 /\ new(i - 1) = "dml"
               /\ new(i) = "set" => i < m /\ new(i + 1) = "function"
      PROVE  NestingOK'
  BY <1>0, <1>c DEF NestingOK
<1>d. \A p : Kept(p) <=> \A i \in 1..p : new(i) = old(i)  BY DEF Kept
<1>t. "trigger" \notin OneFrame /\ "batch" \notin OneFrame /\ "function" \notin OneFrame /\ "set" \notin OneFrame
  BY DEF OneFrame, Statements
<1>e. /\ Goes => m = n /\ \A i \in 1..n : new(i) = old(i)
      /\ Starts1 => m = 1 /\ new(1) = "batch"
      /\ Ends => m = 0
      /\ Enters => n # 0 /\ m = n + 1 /\ (\A i \in 1..n : new(i) = old(i)) /\ new(n + 1) \in OneFrame
      /\ EntersFn => /\ n # 0 /\ m = n + 2 /\ (\A i \in 1..n : new(i) = old(i))
                     /\ new(n + 1) = "set" /\ new(n + 2) = "function"
      /\ Fires => /\ n # 0 /\ m = n + 1 /\ (\A i \in 1..n : new(i) = old(i))
                  /\ new(n + 1) = "trigger" /\ old(n) = "dml"
      /\ Leaves => n # 0 /\ m = n - 1 /\ (\A i \in 1..(n - 1) : new(i) = old(i)) /\ old(n) \in OneFrame
      /\ LeavesFn => n # 0 /\ m = n - 2 /\ (\A i \in 1..(n - 2) : new(i) = old(i)) /\ old(n) = "function"
      /\ LeavesTr => n # 0 /\ m = n - 1 /\ (\A i \in 1..(n - 1) : new(i) = old(i)) /\ old(n) = "trigger"
  BY <1>0, <1>a, <1>d DEF Goes, Starts1, Ends, Enters, EntersFn, Fires, Leaves, LeavesFn, LeavesTr
<1> HIDE DEF n, m, old, new
<1>f. SUFFICES /\ m # 0 => new(1) = "batch"
               /\ \A i \in 1..m :
                    /\ new(i) = "batch" => i = 1
                    /\ new(i) = "function" => i > 1 /\ new(i - 1) = "set"
                    /\ new(i) = "trigger" => i > 1 /\ new(i - 1) = "dml"
                    /\ new(i) = "set" => i < m /\ new(i + 1) = "function"
  BY <1>c
<1>1. CASE Goes  BY <1>0, <1>a, <1>b, <1>e, <1>1
<1>2. CASE Starts1 \/ Ends  BY <1>0, <1>e, <1>2
<1>4. CASE Enters  BY <1>0, <1>a, <1>b, <1>e, <1>t, <1>4
<1>5. CASE EntersFn  BY <1>0, <1>a, <1>b, <1>e, <1>5
<1>6. CASE Fires  BY <1>0, <1>a, <1>b, <1>e, <1>6
<1>7. CASE Leaves  BY <1>0, <1>a, <1>b, <1>e, <1>t, <1>7
<1>8. CASE LeavesFn  BY <1>0, <1>a, <1>b, <1>e, <1>8
<1>9. CASE LeavesTr  BY <1>0, <1>a, <1>b, <1>e, <1>9
<1> QED  BY <1>1, <1>2, <1>4, <1>5, <1>6, <1>7, <1>8, <1>9 DEF Moves

Count(K) == {i \in DOMAIN frames : frames[i].kind \in K}

\* exec_depth and trigger_depth move with the frames they count.
LEMMA CountersStep ==
  ASSUME TypeOK, NestingOK, CountersMatch, frames' \in Seq(Frames), Moves
  PROVE  CountersMatch'
<1> DEFINE n == Len(frames)
           m == Len(frames')
           old(i) == frames[i].kind
           new(i) == frames'[i].kind
           S == Count(Statements)
           T == Count({"trigger"})
           SS == Count(Statements)'
           TT == Count({"trigger"})'
<1>0. n \in Nat /\ m \in Nat /\ (frames' = <<>> <=> m = 0) /\ (frames = <<>> <=> n = 0)
      /\ DOMAIN frames = 1..n /\ DOMAIN frames' = 1..m
  <2>1. frames \in Seq(Frames)  BY DEF TypeOK
  <2>2. n \in Nat /\ m \in Nat /\ DOMAIN frames = 1..n /\ DOMAIN frames' = 1..m  BY <2>1, LenProperties
  <2> QED  BY <2>1, <2>2, EmptySeq
<1>1. \A K : IsFiniteSet(Count(K))
  <2> TAKE K
  <2>1. Count(K) \in SUBSET (1..n)  BY <1>0 DEF Count
  <2>2. IsFiniteSet(1..n)  BY <1>0, FS_Interval
  <2> QED  BY <2>1, <2>2, FS_Subset
<1>6. /\ IsFiniteSet(S) /\ IsFiniteSet(T) /\ Cardinality(S) \in Nat /\ Cardinality(T) \in Nat
      /\ (\A i : i \in S <=> i \in 1..n /\ old(i) \in Statements)
      /\ (\A i : i \in T <=> i \in 1..n /\ old(i) = "trigger")
  <2>1. (\A i : i \in S <=> i \in 1..n /\ old(i) \in Statements) /\ (\A i : i \in T <=> i \in 1..n /\ old(i) = "trigger")
    BY <1>0 DEF Count
  <2>2. IsFiniteSet(S) /\ IsFiniteSet(T)  BY <1>1
  <2> QED  BY <2>1, <2>2, FS_CardinalityType
<1>5. /\ \A i : i \in SS <=> i \in 1..m /\ new(i) \in Statements
      /\ \A i : i \in TT <=> i \in 1..m /\ new(i) = "trigger"
  BY <1>0 DEF Count
<1>2. execDepth = Cardinality(S) /\ triggerDepth = Cardinality(T) /\ triggerDepth <= MaxTriggerDepth
  BY DEF CountersMatch, CountOf, Count
<1>3. ASSUME execDepth' = Cardinality(SS), triggerDepth' = Cardinality(TT), triggerDepth' <= MaxTriggerDepth
      PROVE  CountersMatch'
  BY <1>3 DEF CountersMatch, CountOf, Count
<1>a. n # 0 => old(1) = "batch" /\ Top.kind = old(n)  BY <1>0 DEF NestingOK, Top
<1>b. \A i \in 1..n :
       /\ old(i) = "batch" => i = 1
       /\ old(i) = "function" => i > 1 /\ old(i - 1) = "set"
  BY DEF NestingOK
<1>d. \A p : Kept(p) <=> \A i \in 1..p : new(i) = old(i)  BY DEF Kept
<1>e. /\ Goes => m = n /\ (\A i \in 1..n : new(i) = old(i)) /\ UNCHANGED <<execDepth, triggerDepth>>
      /\ Starts1 => n = 0 /\ m = 1 /\ new(1) = "batch" /\ UNCHANGED <<execDepth, triggerDepth>>
      /\ Ends => n # 0 /\ m = 0 /\ old(n) = "batch" /\ UNCHANGED <<execDepth, triggerDepth>>
      /\ Enters => /\ m = n + 1 /\ (\A i \in 1..n : new(i) = old(i)) /\ new(n + 1) \in OneFrame
                   /\ execDepth' = execDepth + 1 /\ UNCHANGED triggerDepth
      /\ EntersFn => /\ m = n + 2 /\ (\A i \in 1..n : new(i) = old(i))
                     /\ new(n + 1) = "set" /\ new(n + 2) = "function"
                     /\ execDepth' = execDepth + 1 /\ UNCHANGED triggerDepth
      /\ Fires => /\ m = n + 1 /\ (\A i \in 1..n : new(i) = old(i)) /\ new(n + 1) = "trigger"
                  /\ ~(triggerDepth >= MaxTriggerDepth) /\ triggerDepth' = triggerDepth + 1 /\ UNCHANGED execDepth
      /\ Leaves => /\ n # 0 /\ m = n - 1 /\ (\A i \in 1..(n - 1) : new(i) = old(i)) /\ old(n) \in OneFrame
                   /\ execDepth' = execDepth - 1 /\ UNCHANGED triggerDepth
      /\ LeavesFn => /\ n # 0 /\ m = n - 2 /\ (\A i \in 1..(n - 2) : new(i) = old(i)) /\ old(n) = "function"
                     /\ execDepth' = execDepth - 1 /\ UNCHANGED triggerDepth
      /\ LeavesTr => /\ n # 0 /\ m = n - 1 /\ (\A i \in 1..(n - 1) : new(i) = old(i)) /\ old(n) = "trigger"
                     /\ triggerDepth' = triggerDepth - 1 /\ UNCHANGED execDepth
  BY <1>0, <1>a, <1>d DEF Goes, Starts1, Ends, Enters, EntersFn, Fires, Leaves, LeavesFn, LeavesTr
<1>t. /\ "trigger" \notin Statements /\ "batch" \notin Statements /\ "function" \notin Statements
      /\ "set" \in Statements /\ \A k \in OneFrame : k \in Statements /\ k # "trigger"
  BY DEF Statements, OneFrame
<1> HIDE DEF S, T, SS, TT, n, m, old, new
<1>7. CASE Goes
  <2>1. SS = S /\ TT = T  BY <1>0, <1>5, <1>6, <1>e, <1>7
  <2> QED  BY <1>2, <1>3, <1>7, <1>e, <2>1
<1>8. CASE Starts1
  <2>2. S = {} /\ T = {} /\ SS = {} /\ TT = {}  BY <1>5, <1>6, <1>8, <1>t, <1>e
  <2> QED  BY <1>2, <1>3, <1>8, <1>e, <2>2
<1>9. CASE Ends
  <2>1. n = 1 /\ old(1) = "batch" /\ m = 0  BY <1>0, <1>9, <1>b, <1>e
  <2>3. S = {} /\ T = {} /\ SS = {} /\ TT = {}  BY <1>5, <1>6, <1>t, <2>1
  <2> QED  BY <1>2, <1>3, <1>9, <1>e, <2>3
<1>10. CASE Enters
  <2>0. \A i : i \in 1..m <=> i \in 1..n \/ i = n + 1  BY <1>0, <1>10, <1>e
  <2>1. n + 1 \notin S  BY <1>0, <1>6
  <2>2. SS = S \cup {n + 1}  BY <1>5, <1>6, <1>10, <1>t, <1>e, <2>0
  <2>3. TT = T  BY <1>5, <1>6, <1>10, <1>t, <1>e, <2>0
  <2>4. Cardinality(S \cup {n + 1}) = Cardinality(S) + 1  BY <1>6, <2>1, FS_AddElement
  <2> QED  BY <1>2, <1>3, <1>10, <1>e, <2>2, <2>3, <2>4
<1>11. CASE EntersFn
  <2>0. \A i : i \in 1..m <=> i \in 1..n \/ i = n + 1 \/ i = n + 2  BY <1>0, <1>11, <1>e
  <2>1. n + 1 \notin S  BY <1>0, <1>6
  <2>2. SS = S \cup {n + 1}  BY <1>5, <1>6, <1>11, <1>t, <1>e, <2>0
  <2>3. TT = T  BY <1>5, <1>6, <1>11, <1>t, <1>e, <2>0
  <2>4. Cardinality(S \cup {n + 1}) = Cardinality(S) + 1  BY <1>6, <2>1, FS_AddElement
  <2> QED  BY <1>2, <1>3, <1>11, <1>e, <2>2, <2>3, <2>4
<1>12. CASE Fires
  <2>0. \A i : i \in 1..m <=> i \in 1..n \/ i = n + 1  BY <1>0, <1>12, <1>e
  <2>1. n + 1 \notin T  BY <1>0, <1>6
  <2>2. TT = T \cup {n + 1}  BY <1>5, <1>6, <1>12, <1>t, <1>e, <2>0
  <2>3. SS = S  BY <1>5, <1>6, <1>12, <1>t, <1>e, <2>0
  <2>4. Cardinality(T \cup {n + 1}) = Cardinality(T) + 1  BY <1>6, <2>1, FS_AddElement
  <2> QED  BY <1>2, <1>3, <1>6, <1>12, <1>e, <2>2, <2>3, <2>4
<1>13. CASE Leaves
  <2>0. \A i : i \in 1..m <=> i \in 1..n /\ i # n  BY <1>0, <1>13, <1>e
  <2>a. n \in 1..n  BY <1>0, <1>13, <1>e
  <2>1. n \in S  BY <1>6, <1>13, <1>t, <1>e, <2>a
  <2>b. \A i \in 1..m : new(i) = old(i)  BY <1>13, <1>e
  <2>2. SS = S \ {n}  BY <1>5, <1>6, <2>b, <2>0
  <2>3. TT = T  BY <1>5, <1>6, <1>13, <1>t, <1>e, <2>b, <2>0
  <2>4. Cardinality(S \ {n}) = Cardinality(S) - 1  BY <1>6, <2>1, FS_RemoveElement
  <2> QED  BY <1>2, <1>3, <1>13, <1>e, <2>2, <2>3, <2>4
<1>14. CASE LeavesFn
  <2>a. n \in 1..n /\ n - 1 \in 1..n /\ old(n) = "function" /\ old(n - 1) = "set"  BY <1>0, <1>14, <1>b, <1>e
  <2>0. \A i : i \in 1..m <=> i \in 1..n /\ i # n /\ i # n - 1  BY <1>0, <1>14, <1>e
  <2>1. n - 1 \in S  BY <1>6, <1>t, <2>a
  <2>b. \A i \in 1..m : new(i) = old(i)  BY <1>14, <1>e
  <2>2. SS = S \ {n - 1}  BY <1>5, <1>6, <1>t, <2>a, <2>b, <2>0
  <2>3. TT = T  BY <1>5, <1>6, <1>t, <2>a, <2>b, <2>0
  <2>4. Cardinality(S \ {n - 1}) = Cardinality(S) - 1  BY <1>6, <2>1, FS_RemoveElement
  <2> QED  BY <1>2, <1>3, <1>14, <1>e, <2>2, <2>3, <2>4
<1>15. CASE LeavesTr
  <2>0. \A i : i \in 1..m <=> i \in 1..n /\ i # n  BY <1>0, <1>15, <1>e
  <2>a. n \in 1..n  BY <1>0, <1>15, <1>e
  <2>1. n \in T  BY <1>6, <1>15, <1>e, <2>a
  <2>b. \A i \in 1..m : new(i) = old(i)  BY <1>15, <1>e
  <2>2. TT = T \ {n}  BY <1>5, <1>6, <2>b, <2>0
  <2>3. SS = S  BY <1>5, <1>6, <1>15, <1>t, <1>e, <2>b, <2>0
  <2>4. Cardinality(T \ {n}) = Cardinality(T) - 1  BY <1>6, <2>1, FS_RemoveElement
  <2> QED  BY <1>2, <1>3, <1>6, <1>15, <1>e, <2>2, <2>3, <2>4
<1> QED  BY <1>7, <1>8, <1>9, <1>10, <1>11, <1>12, <1>13, <1>14, <1>15 DEF Moves

-----------------------------------------------------------------------------
(* The log and the error under way.                                        *)

\* At depth 0 the only call can be the batch: a function or a trigger has the
\* statement that calls it below.
LEMMA DepthZero ==
  ASSUME NEW fs \in Seq(Frames), Cardinality({i \in DOMAIN fs : fs[i].kind \in Statements}) = 0,
         \A i \in 1..Len(fs) :
           /\ fs[i].kind = "batch" => i = 1
           /\ fs[i].kind = "function" => i > 1 /\ fs[i - 1].kind = "set"
           /\ fs[i].kind = "trigger" => i > 1 /\ fs[i - 1].kind = "dml"
  PROVE  Len(fs) <= 1
<1> DEFINE S == {i \in DOMAIN fs : fs[i].kind \in Statements}
<1>1. Len(fs) \in Nat /\ DOMAIN fs = 1..Len(fs) /\ \A i \in 1..Len(fs) : fs[i] \in Frames
  BY LenProperties, ElementOfSeq
<1>2. IsFiniteSet(S)
  <2>1. S \in SUBSET (1..Len(fs)) /\ IsFiniteSet(1..Len(fs))  BY <1>1, FS_Interval
  <2> QED  BY <2>1, FS_Subset
<1>3. S = {}  BY <1>2, FS_EmptySet
<1>4. \A i \in 1..Len(fs) : fs[i].kind \notin Statements  BY <1>1, <1>3
<1>5. SUFFICES ASSUME Len(fs) >= 2 PROVE FALSE  BY <1>1
<1>6. 2 \in 1..Len(fs) /\ 1 \in 1..Len(fs) /\ 2 - 1 = 1  BY <1>1, <1>5
<1>7. fs[2].kind \in {"batch", "function", "trigger"}
  <2>1. fs[2] \in Frames  BY <1>1, <1>6
  <2>2. fs[2].kind \in {"batch", "branch", "trigger", "loop", "for", "rows", "block", "set", "function", "dml"}
    BY <2>1, FrameFields
  <2> QED  BY <1>4, <1>6, <2>2 DEF Statements
<1>8. fs[1].kind \in {"set", "dml"}  BY <1>6, <1>7
<1> QED  BY <1>4, <1>6, <1>8 DEF Statements

\* While statements run, and above the batch, no record tells of a failure.
LEMMA NoFailureYet ==
  ASSUME TypeOK, NestingOK, BatchOK, LogOK, frames # <<>>, signal = "ok" \/ Top.kind # "batch"
  PROVE  \A i \in 1..Len(log) : log[i].ok
<1>1. reply = "none"  BY DEF BatchOK, TypeOK
<1>2. Top.kind # "batch" => Len(frames) # 1  BY DEF NestingOK, Top
<1> QED  BY <1>1, <1>2 DEF LogOK, Failing

\* What a statement that ends adds to the log.
LEMMA LoggedKeeps ==
  ASSUME LogOK, \A i \in 1..Len(log) : log[i].ok, NEW sig, NEW d, Logged(sig, d),
         d = 0 /\ sig # "ok" => Failing' /\ Len(frames') = 1
  PROVE  LogOK'
<1> DEFINE R == [index : Nat, ok : BOOLEAN]
<1>1. log \in Seq(R) /\ Len(log) \in Nat /\ stmtIndex = Len(log) /\ \A i \in 1..Len(log) : log[i].index = i - 1
  BY LenProperties DEF LogOK
<1>2. CASE d # 0
  BY <1>1, <1>2 DEF Logged, LogOK
<1>3. CASE d = 0
  <2> DEFINE e == [index |-> stmtIndex, ok |-> sig = "ok"]
  <2>1. e \in R /\ e.index = Len(log) /\ (e.ok <=> sig = "ok")  BY <1>1
  <2>2. log' = Append(log, e) /\ stmtIndex' = stmtIndex + 1 /\ UNCHANGED reply  BY <1>3 DEF Logged
  <2> HIDE DEF e
  <2>3. /\ log' \in Seq(R) /\ Len(log') = Len(log) + 1
        /\ \A i \in 1..Len(log) : log'[i] = log[i]
        /\ log'[Len(log) + 1] = e
    BY <1>1, <2>1, <2>2, AppendProperties
  <2> DEFINE n == Len(log)
  <2>4. \A i \in 1..Len(log') : i \in 1..n \/ i = n + 1  BY <1>1, <2>3
  <2>5. \A i \in 1..Len(log') : log'[i].index = i - 1
    <3> HIDE DEF R
    <3> TAKE i \in 1..Len(log')
    <3>1. CASE i \in 1..n  BY <1>1, <2>3, <3>1
    <3>2. CASE i = n + 1  BY <1>1, <2>1, <2>3, <3>2
    <3> QED  BY <2>4, <3>1, <3>2
  <2>6. \A i \in 1..Len(log') : ~log'[i].ok => i = Len(log') /\ sig # "ok"
    <3> TAKE i \in 1..Len(log')
    <3>1. CASE i \in 1..n  BY <2>3, <3>1
    <3>2. CASE i = n + 1  BY <2>1, <2>3, <3>2
    <3> QED  BY <2>4, <3>1, <3>2
  <2>7. stmtIndex' = Len(log')  BY <1>1, <2>2, <2>3
  <2> QED  BY <1>3, <2>3, <2>5, <2>6, <2>7 DEF LogOK
<1> QED  BY <1>2, <1>3

\* The parts of the invariant about what is told.
ToldOK ==
  /\ signal \in Signals /\ stmtIndex \in Nat /\ reply \in {"none", "ok", "error"} /\ count \in 0..MaxStatements
  /\ frames = <<>> => signal = "ok"
  /\ reply # "none" => frames = <<>>
  /\ LogOK

\* What is told stays in order whatever the batch does.
LEMMA ToldStep ==
  ASSUME TypeOK, NestingOK, CountersMatch, BatchOK, LogOK, [Next]_vars,
         frames' \in Seq(Frames), NestingOK', CountersMatch'
  PROVE  ToldOK'
<1>0. frames \in Seq(Frames) /\ Len(frames) \in Nat /\ (frames = <<>> <=> Len(frames) = 0)
      /\ Len(frames') \in Nat /\ (frames' = <<>> <=> Len(frames') = 0)
  <2>1. frames \in Seq(Frames)  BY DEF TypeOK
  <2> QED  BY <2>1, EmptySeq, LenProperties
<1>n. frames' # <<>> => Len(frames') >= 1  BY <1>0
<1>a. execDepth = 0 => Len(frames) <= 1
  BY <1>0, DepthZero DEF NestingOK, CountersMatch, CountOf
<1>b. execDepth' = 0 => Len(frames') <= 1
  BY <1>0, DepthZero DEF NestingOK, CountersMatch, CountOf
<1>c. frames # <<>> => reply = "none"  BY DEF BatchOK, TypeOK
<1>d. frames # <<>> /\ Top.kind # "batch" => Len(frames) # 1  BY DEF NestingOK, Top
<1>e. signal \in Signals /\ stmtIndex \in Nat /\ reply \in {"none", "ok", "error"} /\ count \in 0..MaxStatements
  BY DEF TypeOK, Signals
<1>f. "ok" \in Signals /\ "return" \in Signals /\ "depth" \in Signals  BY DEF Signals, Codes
<1>q. LogOK' => stmtIndex' \in Nat
  BY LenProperties DEF LogOK
<1>t. "batch" \notin OneFrame  BY DEF OneFrame, Statements
<1>1. CASE UNCHANGED vars
  BY <1>1, <1>e DEF vars, calls, told, ToldOK, BatchOK, LogOK, Failing
<1>2. CASE StartBatch
  BY <1>2, <1>e DEF StartBatch, ToldOK, BatchOK, LogOK
<1>3. CASE EndBatch
  <2>1. frames # <<>> /\ signal = "ok"  BY <1>3 DEF EndBatch, Running
  <2>2. \A i \in 1..Len(log) : log[i].ok  BY <2>1, NoFailureYet
  <2>3. LogOK'  BY <1>3, <2>2 DEF EndBatch, LogOK
  <2> QED  BY <1>3, <1>e, <1>q, <2>1, <2>3 DEF EndBatch, RolledBack, ToldOK
<1>4. CASE FailBatch
  <2>1. LogOK'  BY <1>4 DEF FailBatch, RolledBack, LogOK
  <2> QED  BY <1>4, <1>e, <1>f, <1>q, <2>1 DEF FailBatch, RolledBack, ToldOK
<1>5. ASSUME NEW sig \in Signals, Starts, UNCHANGED execDepth, frames' # <<>>, Len(frames') = Len(frames),
             signal' = sig, Logged(sig, execDepth)
      PROVE  ToldOK'
  <2>1. frames # <<>> /\ signal = "ok" /\ count' \in 0..MaxStatements
    BY <1>5, <1>e DEF Starts, Running
  <2>2. \A i \in 1..Len(log) : log[i].ok  BY <2>1, NoFailureYet
  <2>3. execDepth = 0 /\ sig # "ok" => Failing' /\ Len(frames') = 1
    BY <1>0, <1>a, <1>5, <2>1 DEF Failing
  <2>4. LogOK'  BY <1>5, <2>2, <2>3, LoggedKeeps
  <2>5. reply' = "none"  BY <1>5, <1>c, <2>1 DEF Logged
  <2> QED  BY <1>5, <1>q, <2>1, <2>4, <2>5 DEF ToldOK
<1>6. ASSUME NEW new, Enter(new), frames' # <<>>  PROVE ToldOK'
  <2>1. frames # <<>> /\ signal = "ok" /\ count' \in 0..MaxStatements /\ UNCHANGED <<signal, told>>
    BY <1>6, <1>e DEF Enter, Starts, Running
  <2>2. \A i \in 1..Len(log) : log[i].ok  BY <2>1, NoFailureYet
  <2>3. LogOK'  BY <2>1, <2>2 DEF told, LogOK
  <2> QED  BY <1>6, <1>c, <1>e, <1>q, <2>1, <2>3 DEF ToldOK, told
<1>7. ASSUME frames # <<>>, Top.kind # "batch", NEW n \in Nat, NEW sig \in Signals, Leave(n, sig), frames' # <<>>
      PROVE  ToldOK'
  <2>1. signal' = sig /\ execDepth' = execDepth - 1 /\ Logged(sig, execDepth - 1) /\ UNCHANGED count
    BY <1>7 DEF Leave
  <2>2. \A i \in 1..Len(log) : log[i].ok  BY <1>7, NoFailureYet
  <2>3. execDepth - 1 = 0 /\ sig # "ok" => Failing' /\ Len(frames') = 1
    <3>1. execDepth - 1 = 0 => execDepth' = 0  BY <2>1
    <3>a. Len(frames') >= 1 /\ Len(frames') \in Nat  BY <1>0, <1>n, <1>7
    <3>2. execDepth' = 0 => Len(frames') = 1
      <4> DEFINE m == Len(frames')
      <4>1. m >= 1 /\ m \in Nat /\ (execDepth' = 0 => m <= 1)  BY <1>b, <3>a
      <4> HIDE DEF m
      <4>2. execDepth' = 0 => m = 1  BY <4>1
      <4> QED  BY <4>2 DEF m
    <3> QED  BY <1>7, <2>1, <3>1, <3>2 DEF Failing
  <2>4. LogOK'  BY <2>1, <2>2, <2>3, LoggedKeeps
  <2>5. reply' = "none"  BY <1>7, <1>c, <2>1 DEF Logged
  <2> QED  BY <1>7, <1>e, <1>q, <2>1, <2>4, <2>5 DEF ToldOK
<1>8. ASSUME frames # <<>>, Top.kind # "batch", UNCHANGED <<told, count>>, signal' \in Signals, frames' # <<>>
      PROVE  ToldOK'
  <2>2. \A i \in 1..Len(log) : log[i].ok  BY <1>8, NoFailureYet
  <2>3. LogOK'  BY <1>8, <2>2 DEF told, LogOK
  <2> QED  BY <1>8, <1>c, <1>e, <1>q, <2>3 DEF ToldOK, told
<1>9. ASSUME NEW sig \in Signals \ {"return"}, Simple(sig)  PROVE ToldOK'
  BY <1>5, <1>9 DEF Simple, Starts, Running
<1>10. ASSUME NEW f \in Frames, NEW g \in Frames, Enter(<<f>>) \/ Enter(<<f, g>>)  PROVE ToldOK'
  <2> DEFINE new == IF Enter(<<f>>) THEN <<f>> ELSE <<f, g>>
  <2>1. new \in Seq(Frames) /\ Enter(new)  BY <1>10
  <2> HIDE DEF new
  <2>2. Len(frames') = Len(frames) + Len(new) /\ Len(new) \in Nat  BY <2>1, EnterFrames, LenProperties
  <2>3. Len(frames) # 0  BY <1>0, <2>1 DEF Enter, Starts, Running
  <2>4. frames' # <<>>  BY <1>0, <2>2, <2>3
  <2> QED  BY <1>6, <2>1, <2>4
<1>11. ASSUME NEW v \in Values, Return(v)  PROVE ToldOK'
  <2>1. Len(frames') = Len(frames)  BY <1>11, ReturnFrames
  <2>2. frames' # <<>>  BY <1>0, <1>11, <2>1 DEF Return, Starts, Running
  <2> QED  BY <1>5, <1>11, <1>f, <2>1, <2>2 DEF Return
<1>12. ASSUME frames # <<>>, Top.kind \in OneFrame, NEW sig \in Signals, Leave(1, sig)  PROVE ToldOK'
  <2>1. 1 \in 0..Len(frames)  BY <1>0, <1>12
  <2>2. Len(frames') = Len(frames) - 1  BY <1>12, <2>1, LeaveFrames
  <2>3. frames' # <<>>  BY <1>0, <1>12, <1>d, <1>t, <2>2
  <2> QED  BY <1>7, <1>12, <1>t, <2>3
<1>13. ASSUME frames # <<>>, Top.kind = "function", NEW sig \in Signals, Leave(2, sig)  PROVE ToldOK'
  <2>1. Len(frames) >= 2 /\ frames[Len(frames) - 1].kind = "set"  BY <1>13, FunctionIsCalled
  <2>2. Len(frames) # 2  BY <1>13, <2>1 DEF NestingOK
  <2>3. 2 \in 0..Len(frames)  BY <1>0, <2>1
  <2>4. Len(frames') = Len(frames) - 2  BY <1>13, <2>3, LeaveFrames
  <2>5. frames' # <<>>  BY <1>0, <2>1, <2>2, <2>4
  <2> QED  BY <1>7, <1>13, <2>5
<1>14. ASSUME frames # <<>>, Top.kind \in OneFrame, NEW f \in Frames, Stay(f)  PROVE ToldOK'
  <2>1. Len(frames') = Len(frames)  BY <1>14, StayFrames
  <2>2. frames' # <<>>  BY <1>0, <1>14, <2>1
  <2> QED  BY <1>8, <1>14, <1>f, <1>t, <2>2 DEF Stay
<1>15. CASE FireTrigger
  <2>1. frames # <<>> /\ Top.kind = "dml" /\ Top.kind \in OneFrame  BY <1>15 DEF FireTrigger, Running, OneFrame, Statements
  <2>2. CASE triggerDepth >= MaxTriggerDepth
    <3>1. Leave(1, "depth")  BY <1>15, <2>2 DEF FireTrigger
    <3> QED  BY <1>12, <1>f, <2>1, <3>1
  <2>3. CASE ~(triggerDepth >= MaxTriggerDepth)
    <3>1. UNCHANGED <<signal, told, count>>  BY <1>15, <2>3 DEF FireTrigger
    <3>2. Fires \/ Leaves  BY <1>15, <2>1, FiringMoves DEF LeavesTr
    <3>3. frames' # <<>>  BY <1>0, <1>d, <1>t, <2>1, <3>2 DEF Fires, Leaves
    <3> QED  BY <1>8, <1>e, <2>1, <3>1, <3>3
  <2> QED  BY <2>2, <2>3
<1>16. CASE LeaveTrigger
  <2>1. frames # <<>> /\ Top.kind = "trigger" /\ UNCHANGED <<signal, told, count>>  BY <1>16 DEF LeaveTrigger
  <2>2. Fires \/ Leaves \/ LeavesTr  BY <1>16, <2>1, FiringMoves
  <2>3. Len(frames') = Len(frames) + 1 \/ Len(frames') = Len(frames) - 1  BY <2>2 DEF Fires, Leaves, LeavesTr
  <2>4. Len(frames) # 1 /\ Len(frames) # 0
    <3>1. Top.kind # "batch"  BY <2>1
    <3> QED  BY <1>0, <1>d, <2>1, <3>1
  <2>a. Len(frames') # 0 /\ Len(frames') \in Nat
    <3> DEFINE m == Len(frames')
               n == Len(frames)
    <3>1. n \in Nat /\ m \in Nat /\ (m = n + 1 \/ m = n - 1) /\ n # 1 /\ n # 0  BY <1>0, <2>3, <2>4
    <3> HIDE DEF m, n
    <3>2. m # 0  BY <3>1
    <3> QED  BY <3>1, <3>2 DEF m
  <2>5. frames' # <<>>  BY <1>0, <2>a
  <2>6. Top.kind # "batch"  BY <2>1
  <2> QED  BY <1>8, <1>e, <2>1, <2>5, <2>6
<1> QED
  BY <1>1, <1>2, <1>3, <1>4, <1>9, <1>10, <1>11, <1>12, <1>13, <1>14, <1>15, <1>16, Skeletal DEF Skeleton

-----------------------------------------------------------------------------
(* The value of a RETURN, and the names of loops.                          *)

\* pending_return_value is the innermost call's while its RETURN is under way.
LEMMA ReturnStep ==
  ASSUME TypeOK, NestingOK, BatchOK, ReturnOK, [Next]_vars, frames' \in Seq(Frames)
  PROVE  ReturnOK'
<1>0. /\ frames \in Seq(Frames) /\ Len(frames) \in Nat /\ DOMAIN frames = 1..Len(frames)
      /\ Len(frames') \in Nat /\ DOMAIN frames' = 1..Len(frames')
  BY LenProperties DEF TypeOK
<1>1. CASE UNCHANGED vars
  BY <1>1 DEF vars, calls, ReturnOK, Calls
<1>2. CASE StartBatch
  BY <1>2 DEF StartBatch, BatchOK, ReturnOK
<1>3. CASE EndBatch \/ FailBatch
  BY <1>3 DEF EndBatch, FailBatch, Running, ReturnOK
<1>4. ASSUME NEW sig \in Signals \ {"return"}, Simple(sig)  PROVE ReturnOK'
  BY <1>4 DEF Simple, ReturnOK
<1>5. ASSUME NEW new, Enter(new)  PROVE ReturnOK'
  BY <1>5 DEF Enter, Starts, Running, ReturnOK
<1>6. ASSUME NEW v \in Values, Return(v)  PROVE ReturnOK'
  <2>1. /\ Len(frames') = Len(frames)
        /\ \A i \in 1..Len(frames) : frames'[i].kind = frames[i].kind
        /\ \A i \in Calls : (\A j \in Calls : j <= i) => frames'[i].said = v
    BY <1>6, ReturnFrames
  <2>2. Calls' = Calls  BY <1>0, <2>1 DEF Calls
  <2>3. pending' = v  BY <1>6 DEF Return
  <2> QED  BY <2>1, <2>2, <2>3 DEF ReturnOK
<1>7. ASSUME frames # <<>>, Top.kind # "function", signal = "return", UNCHANGED pending,
             Len(frames') = Len(frames) - 1, \A i \in 1..(Len(frames) - 1) : frames'[i] = frames[i]
      PROVE  ReturnOK'
  <2>1. Calls' = Calls
    <3>1. \A i \in Calls : i # Len(frames)  BY <1>7 DEF Calls, Top
    <3>2. \A i : i \in Calls <=> i \in 1..Len(frames) /\ frames[i].kind = "function"  BY <1>0 DEF Calls
    <3>3. \A i : i \in Calls' <=> i \in 1..(Len(frames) - 1) /\ frames'[i].kind = "function"
      BY <1>0, <1>7 DEF Calls
    <3>4. \A i : i \in 1..(Len(frames) - 1) <=> i \in 1..Len(frames) /\ i # Len(frames)  BY <1>0
    <3> HIDE DEF Calls
    <3> QED  BY <1>7, <3>1, <3>2, <3>3, <3>4
  <2>2. \A i \in Calls : i \in 1..(Len(frames) - 1)
    BY <1>0, <1>7 DEF Calls, Top
  <2> QED  BY <1>7, <2>1, <2>2 DEF ReturnOK
<1>8. ASSUME frames # <<>>, Top.kind \in OneFrame, UNCHANGED pending, NEW sig \in Signals, Leave(1, sig),
             sig = "return" => signal = "return"
      PROVE  ReturnOK'
  <2>1. CASE sig # "return"
    BY <1>8, <2>1 DEF Leave, ReturnOK
  <2>2. CASE sig = "return"
    <3>1. 1 \in 0..Len(frames)  BY <1>8, TopFrame
    <3>2. Len(frames') = Len(frames) - 1 /\ \A i \in 1..(Len(frames) - 1) : frames'[i] = frames[i]
      BY <1>8, <3>1, LeaveFrames
    <3>3. Top.kind # "function"  BY <1>8 DEF OneFrame, Statements
    <3> QED  BY <1>7, <1>8, <2>2, <3>2, <3>3
  <2> QED  BY <2>1, <2>2
<1>9. ASSUME NEW sig \in Signals \ {"return"}, Leave(2, sig)  PROVE ReturnOK'
  BY <1>9 DEF Leave, ReturnOK
<1>10. ASSUME NEW f, Stay(f)  PROVE ReturnOK'
  BY <1>10 DEF Stay, ReturnOK
<1>11. CASE FireTrigger
  BY <1>11 DEF FireTrigger, Leave, Running, ReturnOK
<1>12. CASE LeaveTrigger
  <2>1. CASE signal # "return"
    BY <1>12, <2>1 DEF LeaveTrigger, ReturnOK
  <2>2. CASE signal = "return"
    <3>1. frames # <<>> /\ Top.kind = "trigger" /\ frames' = Below /\ UNCHANGED pending  BY <1>12 DEF LeaveTrigger
    <3> QED  BY <1>7, <2>2, <3>1, TopFrame
  <2> QED  BY <2>1, <2>2
<1> QED
  BY <1>1, <1>2, <1>3, <1>4, <1>5, <1>6, <1>8, <1>9, <1>10, <1>11, <1>12, Skeletal DEF Skeleton

\* A loop keeps the names it has taken over.
LEMMA LoopsStep ==
  ASSUME TypeOK, NestingOK, [Next]_vars, frames' \in Seq(Frames), DistinctColumns, LoopsOK
  PROVE  LoopsOK'
<1>0. frames \in Seq(Frames) /\ Len(frames) \in Nat /\ Len(frames') \in Nat
  BY LenProperties DEF TypeOK
<1>k. \A f : f.kind \notin {"for", "rows"} => NamesOnce(f)  BY DEF NamesOnce
<1>l. \A i \in 1..Len(frames) : NamesOnce(frames[i])  BY DEF LoopsOK
<1>1. CASE UNCHANGED vars
  BY <1>1 DEF vars, calls, LoopsOK
<1>2. CASE StartBatch
  <2>1. Len(frames') = 1 /\ frames'[1].kind = "batch"  BY <1>2 DEF StartBatch
  <2> QED  BY <2>1, <1>k DEF LoopsOK
<1>3. CASE EndBatch \/ FailBatch
  <2>1. Len(frames') = 0  BY <1>3 DEF EndBatch, FailBatch
  <2> QED  BY <2>1 DEF LoopsOK
<1>4. ASSUME NEW sig, Simple(sig)  PROVE LoopsOK'
  BY <1>4 DEF Simple, LoopsOK
<1>5. ASSUME NEW new \in Seq(Frames), Enter(new), \A i \in 1..Len(new) : NamesOnce(new[i])  PROVE LoopsOK'
  <2>1. /\ Len(frames') = Len(frames) + Len(new)
        /\ \A i \in 1..Len(frames) : frames'[i] = frames[i]
        /\ \A i \in 1..Len(new) : frames'[Len(frames) + i] = new[i]
    BY <1>5, EnterFrames
  <2>2. Len(new) \in Nat  BY LenProperties
  <2>3. ASSUME NEW i \in 1..Len(frames')  PROVE NamesOnce(frames'[i])
    <3>1. CASE i \in 1..Len(frames)  BY <1>l, <2>1, <3>1
    <3>2. CASE i \notin 1..Len(frames)
      <4>1. i - Len(frames) \in 1..Len(new) /\ i = Len(frames) + (i - Len(frames))  BY <1>0, <2>1, <2>2, <2>3, <3>2
      <4>2. frames'[i] = new[i - Len(frames)]  BY <2>1, <4>1
      <4> QED  BY <1>5, <4>1, <4>2
    <3> QED  BY <3>1, <3>2
  <2> QED  BY <2>3 DEF LoopsOK
<1>6. ASSUME NEW v \in Values, Return(v)  PROVE LoopsOK'
  <2>1. /\ Len(frames') = Len(frames)
        /\ \A i \in 1..Len(frames) : frames'[i].kind = frames[i].kind
        /\ \A i \in 1..Len(frames) : frames[i].kind # "function" => frames'[i] = frames[i]
    BY <1>6, ReturnFrames
  <2>3. ASSUME NEW i \in 1..Len(frames')  PROVE NamesOnce(frames'[i])
    <3>1. CASE frames[i].kind = "function"  BY <1>k, <2>1, <3>1
    <3>2. CASE frames[i].kind # "function"  BY <1>l, <2>1, <3>2
    <3> QED  BY <3>1, <3>2
  <2> QED  BY <2>3 DEF LoopsOK
<1>7. ASSUME NEW n \in 0..Len(frames), NEW sig, Leave(n, sig)  PROVE LoopsOK'
  <2>1. Len(frames') = Len(frames) - n /\ \A i \in 1..(Len(frames) - n) : frames'[i] = frames[i]
    BY <1>7, LeaveFrames
  <2>2. \A i \in 1..(Len(frames) - n) : i \in 1..Len(frames)  BY <1>0
  <2> QED  BY <1>l, <2>1, <2>2 DEF LoopsOK
<1>8. ASSUME frames # <<>>, NEW f \in Frames, Stay(f), f.kind = Top.kind, f.kind \in {"for", "rows"} => f.saved = Top.saved
      PROVE  LoopsOK'
  <2>1. /\ Len(frames') = Len(frames) /\ frames'[Len(frames)] = f
        /\ \A i \in 1..(Len(frames) - 1) : frames'[i] = frames[i]
    BY <1>8, StayFrames
  <2>2. NamesOnce(Top)  BY <1>0, <1>8, <1>l, TopFrame DEF Top
  <2>3. NamesOnce(f)  BY <1>8, <2>2 DEF NamesOnce
  <2>4. ASSUME NEW i \in 1..Len(frames')  PROVE NamesOnce(frames'[i])
    <3>1. CASE i = Len(frames)  BY <2>1, <2>3, <3>1
    <3>2. CASE i # Len(frames)
      <4>1. i \in 1..(Len(frames) - 1) /\ i \in 1..Len(frames)  BY <1>0, <2>1, <2>4, <3>2
      <4> QED  BY <1>l, <2>1, <4>1
    <3> QED  BY <3>1, <3>2
  <2> QED  BY <2>4 DEF LoopsOK
<1>9. CASE LeaveTrigger
  <2>1. frames # <<>> /\ frames' = Below  BY <1>9 DEF LeaveTrigger
  <2>2. Len(frames') = Len(frames) - 1 /\ \A i \in 1..(Len(frames) - 1) : frames'[i] = frames[i]
    BY <2>1, TopFrame
  <2>3. \A i \in 1..(Len(frames) - 1) : i \in 1..Len(frames)  BY <1>0
  <2> QED  BY <1>l, <2>2, <2>3 DEF LoopsOK
<1>10. CASE FireTrigger
  <2>1. frames # <<>> /\ Top.kind = "dml"  BY <1>10 DEF FireTrigger, Running
  <2>2. CASE triggerDepth >= MaxTriggerDepth
    <3>1. Leave(1, "depth")  BY <1>10, <2>2 DEF FireTrigger
    <3>2. 1 \in 0..Len(frames)  BY <2>1, TopFrame
    <3> QED  BY <1>7, <3>1, <3>2
  <2>3. CASE ~(triggerDepth >= MaxTriggerDepth)
    <3> DEFINE f == [Top EXCEPT !.left = Top.left - 1]
               g == [kind |-> "trigger"]
               K == [kind : {"dml"}, id : 0..MaxStatements, written : BOOLEAN, left : Nat]
    <3>1. Top \in K  BY <2>1, TopFrame, FrameFields
    <3>2. f.kind = "dml" /\ g.kind = "trigger"  BY <3>1
    <3>3. frames' = Below \o <<f, g>>  BY <1>10, <2>3 DEF FireTrigger
    <3>4. Len(frames) \in Nat \ {0} /\ Below \in Seq(Frames) /\ Len(Below) = Len(frames) - 1
          /\ \A i \in 1..(Len(frames) - 1) : Below[i] = frames[i]
      BY <2>1, TopFrame
    <3> HIDE DEF f, g, K
    <3> DEFINE R == Frames \cup {f, g}
               b == Below
               c == <<f, g>>
    <3>5. b \in Seq(R) /\ c \in Seq(R) /\ Len(c) = 2 /\ c[1] = f /\ c[2] = g
      <4>1. Frames \subseteq R  OBVIOUS
      <4>2. b \in Seq(R)  BY <3>4, <4>1, SeqMonotonic
      <4> QED  BY <4>2
    <3> HIDE DEF R, c
    <3>6. Len(b \o c) = Len(b) + 2 /\ \A i \in 1..(Len(b) + 2) : (b \o c)[i] = IF i <= Len(b) THEN b[i] ELSE c[i - Len(b)]
      <4> HIDE DEF b
      <4>1. /\ Len(b \o c) = Len(b) + Len(c)
            /\ \A i \in 1..(Len(b) + Len(c)) : (b \o c)[i] = IF i <= Len(b) THEN b[i] ELSE c[i - Len(b)]
        BY <3>5, ConcatProperties
      <4> QED  BY <3>5, <4>1
    <3> DEFINE n == Len(b)
    <3>7. n \in Nat /\ frames' = b \o c /\ Len(frames) = n + 1 /\ Len(frames') = n + 2
          /\ (\A i \in 1..n : b[i] = frames[i])
          /\ \A i \in 1..(n + 2) : frames'[i] = IF i <= n THEN b[i] ELSE c[i - n]
      BY <3>3, <3>4, <3>6 DEF c
    <3> HIDE DEF n, b
    <3>8. ASSUME NEW i \in 1..Len(frames')  PROVE NamesOnce(frames'[i])
      <4>1. CASE i <= n
        <5>1. i \in 1..n /\ i \in 1..Len(frames) /\ i \in 1..(n + 2)  BY <3>7, <3>8, <4>1
        <5> QED  BY <1>l, <3>7, <4>1, <5>1
      <4>2. CASE ~(i <= n)
        <5>1. i \in 1..(n + 2) /\ i - n \in {1, 2}  BY <3>7, <3>8, <4>2
        <5>2. frames'[i] \in {f, g}  BY <3>5, <3>7, <4>2, <5>1
        <5> QED  BY <1>k, <3>2, <5>2
      <4> QED  BY <4>1, <4>2
    <3> QED  BY <3>8 DEF LoopsOK
  <2> QED  BY <2>2, <2>3
<1> QED
  <2>1. ASSUME NEW f \in Frames, Enter(<<f>>), NamesOnce(f)  PROVE LoopsOK'
    <3> DEFINE new == <<f>>
    <3>1. new \in Seq(Frames) /\ Enter(new) /\ \A i \in 1..Len(new) : NamesOnce(new[i])  BY <2>1
    <3> HIDE DEF new
    <3> QED  BY <1>5, <3>1
  <2>2. ASSUME NEW f \in Frames, NEW g \in Frames, Enter(<<f, g>>), f.kind = "set", g.kind = "function"  PROVE LoopsOK'
    <3> DEFINE new == <<f, g>>
    <3>1. NamesOnce(f) /\ NamesOnce(g)  BY <1>k, <2>2
    <3>2. new \in Seq(Frames) /\ Enter(new) /\ \A i \in 1..Len(new) : NamesOnce(new[i])  BY <2>2, <3>1
    <3> HIDE DEF new
    <3> QED  BY <1>5, <3>2
  <2>3. ASSUME frames # <<>>, NEW sig, Leave(1, sig)  PROVE LoopsOK'
    <3>1. 1 \in 0..Len(frames)  BY <2>3, TopFrame
    <3> QED  BY <1>7, <2>3, <3>1
  <2>4. ASSUME frames # <<>>, Top.kind = "function", NEW sig, Leave(2, sig)  PROVE LoopsOK'
    <3>1. 2 \in 0..Len(frames)  BY <1>0, <2>4, FunctionIsCalled
    <3> QED  BY <1>7, <2>4, <3>1
  <2> QED
    BY <1>1, <1>2, <1>3, <1>4, <1>6, <1>8, <1>9, <1>10, <2>1, <2>2, <2>3, <2>4, Skeletal DEF Skeleton

-----------------------------------------------------------------------------
(* Variables, and the transaction.                                         *)

\* The variables of a loop are given back, or set, to values.
LEMMA ScopeTyped ==
  ASSUME TypeOK, NEW saved \in Seq([key : Vars, was : Values \cup {Unset}]), NEW v \in Values,
         GiveBack(saved) \/ Inject(saved, v)
  PROVE  scope' \in [Vars -> Values \cup {Unset}]
<1>1. Len(saved) \in Nat /\ DOMAIN saved = 1..Len(saved)
      /\ \A i \in 1..Len(saved) : saved[i] \in [key : Vars, was : Values \cup {Unset}]
  BY LenProperties, ElementOfSeq
<1>2. scope \in [Vars -> Values \cup {Unset}]  BY DEF TypeOK
<1>3. CASE Inject(saved, v)
  BY <1>2, <1>3 DEF Inject
<1>4. CASE GiveBack(saved)
  <2>1. ASSUME NEW x \in Vars, Places(saved, x) # {}  PROVE saved[Max(Places(saved, x))].was \in Values \cup {Unset}
    <3>1. Places(saved, x) \in SUBSET (1..Len(saved))  BY <1>1 DEF Places
    <3>2. Max(Places(saved, x)) \in 1..Len(saved)  BY <1>1, <2>1, <3>1, LargestOf
    <3> QED  BY <1>1, <3>2
  <2> QED  BY <1>2, <1>4, <2>1 DEF GiveBack
<1> QED  BY <1>3, <1>4

\* The variable a SET assigns to is below the function it calls.
LEMMA AssignedTyped ==
  ASSUME TypeOK, NestingOK, frames # <<>>, Top.kind = "function", NEW v \in Values \cup {Unset}, Assigned(v)
  PROVE  scope' \in [Vars -> Values \cup {Unset}]
<1>1. Len(frames) >= 2 /\ frames[Len(frames) - 1].kind = "set"  BY FunctionIsCalled
<1>2. Len(frames) - 1 \in 1..Len(frames) /\ Len(frames) \in Nat  BY <1>1, TopFrame
<1>3. frames[Len(frames) - 1] \in Frames  BY <1>2, ElementOfSeq DEF TypeOK
<1>4. frames[Len(frames) - 1].key \in Vars  BY <1>1, <1>3, FrameFields DEF Vars
<1> QED  BY <1>4 DEF Assigned, TypeOK

\* Variables and the pending value keep their types.
LEMMA ScopeStep ==
  ASSUME TypeOK, NestingOK, [Next]_vars
  PROVE  scope' \in [Vars -> Values \cup {Unset}] /\ pending' \in Values \cup {Unset}
<1> DEFINE Kept1 == UNCHANGED scope /\ UNCHANGED pending
<1>0. scope \in [Vars -> Values \cup {Unset}] /\ pending \in Values \cup {Unset}
      /\ 0 \in Values /\ 1 \in Values /\ Null \in Values /\ Names \subseteq Vars
  BY DEF TypeOK, Values, Ints, Vars
<1>1. CASE UNCHANGED vars
  BY <1>0, <1>1 DEF vars
<1>2. CASE StartBatch
  BY <1>2 DEF StartBatch
<1>3. CASE Transaction \/ Data
  BY <1>0, <1>3 DEF Transaction, Begin, Commit, Rollback, Savepoint, RollbackTo, Release, Data, Insert, InsertWithTriggers
<1>4. CASE EndBatch \/ FailBatch \/ EndBody \/ Catch \/ FailBody \/ TurnLoop \/ ExitLoop
           \/ FireTrigger \/ LeaveTrigger \/ EndInsert \/ \E n \in {0, 1} : WriteRow(n)
  BY <1>0, <1>4 DEF EndBatch, FailBatch, EndBody, Catch, FailBody, TurnLoop, ExitLoop, FireTrigger, LeaveTrigger, EndInsert, WriteRow
<1>5. CASE Exit \/ Raise \/ If \/ Call \/ (\E h \in Handlers : Block(h)) \/ (\E c \in BOOLEAN : Loop(c))
  BY <1>0, <1>5 DEF Exit, Raise, If, Call, Block, Loop
<1>6. ASSUME NEW x \in Names, Declare(x) \/ SetVariable(x) \/ CallFunction(x)
      PROVE  scope' \in [Vars -> Values \cup {Unset}] /\ pending' \in Values \cup {Unset}
  BY <1>0, <1>6 DEF Declare, SetVariable, CallFunction
<1>7. ASSUME NEW x \in Names, NEW range \in Ranges, For(x, range)
      PROVE  scope' \in [Vars -> Values \cup {Unset}] /\ pending' \in Values \cup {Unset}
  <2>1. <<x>> \in Seq(Vars)  BY <1>0
  <2>2. Saved(<<x>>) \in Seq([key : Vars, was : Values \cup {Unset}])  BY <2>1, SavedTyped
  <2>3. range.from \in Values  BY DEF Values
  <2>4. UNCHANGED scope \/ Inject(Saved(<<x>>), range.from)  BY <1>7 DEF For
  <2>5. UNCHANGED pending  BY <1>7 DEF For
  <2> QED  BY <1>0, <2>2, <2>3, <2>4, <2>5, ScopeTyped
<1>8. ASSUME NEW keys \in Columns, NEW rows \in 0..(MaxLoop + 1), ForRows(keys, rows)
      PROVE  scope' \in [Vars -> Values \cup {Unset}] /\ pending' \in Values \cup {Unset}
  <2>1. keys \in Seq(Vars)  BY SeqMonotonic DEF Vars
  <2>2. Saved(keys) \in Seq([key : Vars, was : Values \cup {Unset}])  BY <2>1, SavedTyped
  <2>4. UNCHANGED scope \/ Inject(Saved(keys), Null)  BY <1>8 DEF ForRows
  <2>5. UNCHANGED pending  BY <1>8 DEF ForRows
  <2> QED  BY <1>0, <2>2, <2>4, <2>5, ScopeTyped
<1>9. ASSUME NEW v \in {0, 1}, Return(v)
      PROVE  scope' \in [Vars -> Values \cup {Unset}] /\ pending' \in Values \cup {Unset}
  BY <1>0, <1>9 DEF Return
<1>10. CASE TurnFor \/ TurnRows \/ BreakFor
  <2>1. frames # <<>> /\ Top.kind \in {"for", "rows"} /\ UNCHANGED pending
    BY <1>10 DEF TurnFor, TurnRows, BreakFor, Running, Failing
  <2>2. Top \in Frames  BY <2>1, TopFrame
  <2>3. Top.saved \in Seq([key : Vars, was : Values \cup {Unset}])  BY <2>1, <2>2, FrameFields
  <2>4. \/ GiveBack(Top.saved)
        \/ Inject(Top.saved, 1)
        \/ TurnFor /\ Inject(Top.saved, Stepped(Top.at, Top.by))
    BY <1>10 DEF TurnFor, TurnRows, BreakFor
  <2>5. TurnFor => Stepped(Top.at, Top.by) \in Values
    <3>1. TurnFor => Top.at \in Ints /\ Top.by \in Ints  BY <2>2, FrameFields DEF TurnFor
    <3> QED  BY <3>1 DEF Stepped, Values, Ints
  <2> QED  BY <1>0, <2>1, <2>3, <2>4, <2>5, ScopeTyped
<1>11. CASE FunctionReturns \/ FunctionEnds \/ FunctionFails
  <2>1. frames # <<>> /\ Top.kind = "function" /\ pending' = Top.prev
    BY <1>11 DEF FunctionReturns, FunctionEnds, FunctionFails, Running, Failing
  <2>2. Top \in Frames  BY <2>1, TopFrame
  <2>3. Top.prev \in Values \cup {Unset}  BY <2>1, <2>2, FrameFields
  <2>4. Assigned(pending) \/ Assigned(Null) \/ UNCHANGED scope
    BY <1>11 DEF FunctionReturns, FunctionEnds, FunctionFails
  <2> QED  BY <1>0, <2>1, <2>3, <2>4, AssignedTyped
<1> QED
  BY <1>1, <1>2, <1>3, <1>4, <1>5, <1>6, <1>7, <1>8, <1>9, <1>10, <1>11 DEF Next, Control, Proceeds

\* A prefix of the savepoints is one.
LEMMA SavesPrefix ==
  ASSUME NEW R, NEW s \in Seq(R), NEW m \in 0..Len(s)
  PROVE  SubSeq(s, 1, m) \in Seq(R)
<1>1. Len(s) \in Nat /\ \A i \in 1..Len(s) : s[i] \in R  BY LenProperties, ElementOfSeq
<1>2. \A i \in 1..m : s[i] \in R  BY <1>1
<1> QED  BY <1>1, <1>2, SubSeqProperties

\* The transaction's data.
DbOK ==
  /\ explicit \in BOOLEAN
  /\ work \in SUBSET (0..MaxStatements) /\ durable \in SUBSET (0..MaxStatements)
  /\ saves \in Seq([name : SpNames, work : SUBSET (0..MaxStatements)])
  /\ saves # <<>> => explicit

\* Savepoints stay those of the transaction under way.
LEMMA DbStep ==
  ASSUME TypeOK, BatchOK, [Next]_vars
  PROVE  DbOK'
<1> DEFINE W == SUBSET (0..MaxStatements)
           R == [name : SpNames, work : W]
<1>0. /\ explicit \in BOOLEAN /\ work \in W /\ durable \in W /\ saves \in Seq(R) /\ (saves # <<>> => explicit)
      /\ count \in 0..MaxStatements
  BY DEF TypeOK, BatchOK
<1>e. <<>> \in Seq(R) /\ {} \in W  OBVIOUS
<1>w. ASSUME NEW id \in 0..MaxStatements, NEW sig, Written(id, sig)  PROVE work' \in W
  <2>1. work \cup {id} \in W  BY <1>0
  <2> QED  BY <1>0, <1>w, <2>1 DEF Written
<1>d. DbOK <=> explicit \in BOOLEAN /\ work \in W /\ durable \in W /\ saves \in Seq(R) /\ (saves # <<>> => explicit)
  BY DEF DbOK
<1>p. DbOK' <=> explicit' \in BOOLEAN /\ work' \in W /\ durable' \in W /\ saves' \in Seq(R) /\ (saves' # <<>> => explicit')
  BY DEF DbOK
<1> HIDE DEF W, R
<1>1. CASE UNCHANGED <<explicit, db>>
  BY <1>0, <1>1, <1>p DEF db
<1>2. CASE StartBatch
  BY <1>2, <1>e, <1>p DEF StartBatch
<1>3. CASE EndBatch \/ FailBatch
  BY <1>3, <1>0, <1>e, <1>p DEF EndBatch, FailBatch, RolledBack
<1>4. CASE Begin
  BY <1>0, <1>4, <1>p DEF Begin, db
<1>5. CASE Commit
  BY <1>0, <1>5, <1>e, <1>p DEF Commit
<1>6. CASE Rollback
  BY <1>0, <1>6, <1>e, <1>p DEF Rollback
<1>7. ASSUME NEW n \in SpNames, Savepoint(n)  PROVE DbOK'
  <2>1. [name |-> n, work |-> work] \in R  BY <1>0 DEF R
  <2>2. Append(saves, [name |-> n, work |-> work]) \in Seq(R)  BY <1>0, <2>1, AppendProperties
  <2> QED  BY <1>0, <1>7, <1>p, <2>2 DEF Savepoint
<1>8. ASSUME NEW n \in SpNames, RollbackTo(n) \/ Release(n)  PROVE DbOK'
  <2>1. CASE ~explicit \/ Named(n) = {}
    BY <1>0, <1>8, <1>p, <2>1 DEF RollbackTo, Release
  <2>2. CASE explicit /\ Named(n) # {}
    <3> DEFINE m == Max(Named(n))
    <3>1. Len(saves) \in Nat /\ DOMAIN saves = 1..Len(saves) /\ \A i \in 1..Len(saves) : saves[i] \in R
      BY <1>0, LenProperties, ElementOfSeq
    <3>2. Named(n) \in SUBSET (1..Len(saves))  BY <3>1 DEF Named
    <3>3. m \in 1..Len(saves)  BY <2>2, <3>1, <3>2, LargestOf
    <3>4. saves[m].work \in W  BY <3>1, <3>3 DEF R
    <3>5. m \in 0..Len(saves) /\ m - 1 \in 0..Len(saves)  BY <3>1, <3>3
    <3>6. SubSeq(saves, 1, m) \in Seq(R) /\ SubSeq(saves, 1, m - 1) \in Seq(R)  BY <1>0, <3>5, SavesPrefix
    <3>7. \/ work' = saves[m].work /\ saves' = SubSeq(saves, 1, m) /\ UNCHANGED <<explicit, durable>>
          \/ saves' = SubSeq(saves, 1, m - 1) /\ UNCHANGED <<explicit, work, durable>>
      BY <1>8, <2>2 DEF RollbackTo, Release
    <3> HIDE DEF m
    <3> QED  BY <1>0, <1>p, <2>2, <3>4, <3>6, <3>7
  <2> QED  BY <1>0, <2>1, <2>2
<1>9. CASE Insert
  BY <1>0, <1>9, <1>p, <1>w DEF Insert
<1>10. ASSUME NEW n \in {0, 1}, WriteRow(n)  PROVE DbOK'
  <2>1. frames # <<>> /\ Top.kind = "dml" /\ UNCHANGED <<explicit, saves, durable>>  BY <1>10 DEF WriteRow, Running
  <2>2. Top \in Frames  BY <2>1, TopFrame
  <2>3. Top.id \in 0..MaxStatements  BY <2>1, <2>2, FrameFields
  <2>4. work' \in W  BY <1>10, <1>w, <2>3 DEF WriteRow
  <2> QED  BY <1>0, <1>p, <2>1, <2>4
<1>11. CASE Control
  <2>1. UNCHANGED <<explicit, db>>
    BY <1>11 DEF Control, Declare, SetVariable, CallFunction, Exit, Raise, If, Call, Block, Loop, For, ForRows, Return
  <2> QED  BY <1>1, <2>1
<1>12. CASE \/ EndBody \/ Catch \/ FailBody \/ TurnLoop \/ ExitLoop \/ TurnFor \/ TurnRows \/ BreakFor
            \/ FunctionReturns \/ FunctionEnds \/ FunctionFails \/ FireTrigger \/ LeaveTrigger \/ EndInsert
  <2>1. UNCHANGED <<explicit, db>>
    BY <1>12 DEF EndBody, Catch, FailBody, TurnLoop, ExitLoop, TurnFor, TurnRows, BreakFor,
                 FunctionReturns, FunctionEnds, FunctionFails, FireTrigger, LeaveTrigger, EndInsert
  <2> QED  BY <1>1, <2>1
<1>13. ASSUME NEW n \in {0, 1}, InsertWithTriggers(n)  PROVE DbOK'
  BY <1>1, <1>13 DEF InsertWithTriggers
<1>14. CASE UNCHANGED vars
  <2>1. UNCHANGED <<explicit, db>>  BY <1>14 DEF vars
  <2> QED  BY <1>1, <2>1
<1> QED
  BY <1>2, <1>3, <1>4, <1>5, <1>6, <1>7, <1>8, <1>9, <1>10, <1>11, <1>12, <1>13, <1>14 DEF Next, Transaction, Data, Proceeds

-----------------------------------------------------------------------------
(* The theorems.                                                           *)

\* The first state is one of the invariant.
LEMMA InitHolds == Init => IInv
<1> SUFFICES ASSUME Init PROVE IInv  OBVIOUS
<1>1. TypeOK
  <2>1. frames \in Seq(Frames) /\ saves \in Seq([name : SpNames, work : SUBSET (0..MaxStatements)])  BY DEF Init
  <2>2. scope \in [Vars -> Values \cup {Unset}] /\ pending \in Values \cup {Unset}  BY DEF Init
  <2>3. work \in SUBSET (0..MaxStatements) /\ durable \in SUBSET (0..MaxStatements)  BY DEF Init
  <2>4. stmtIndex \in Nat /\ count \in 0..MaxStatements  BY DEF Init
  <2>5. signal \in {"ok", "exit", "return"} \cup Codes /\ explicit \in BOOLEAN /\ reply \in {"none", "ok", "error"}
    BY DEF Init
  <2> QED  BY <2>1, <2>2, <2>3, <2>4, <2>5 DEF TypeOK
<1>2. CountersMatch
  <2>1. CountOf(Statements) = 0 /\ CountOf({"trigger"}) = 0
    <3>1. DOMAIN frames = {}  BY DEF Init
    <3>2. {i \in DOMAIN frames : frames[i].kind \in Statements} = {} /\ {i \in DOMAIN frames : frames[i].kind \in {"trigger"}} = {}
      BY <3>1
    <3> QED  BY <3>2, FS_EmptySet DEF CountOf
  <2> QED  BY <2>1 DEF Init, CountersMatch
<1>3. NestingOK /\ BatchOK /\ LogOK /\ ReturnOK /\ LoopsOK
  BY DEF Init, NestingOK, BatchOK, LogOK, ReturnOK, LoopsOK
<1> QED  BY <1>1, <1>2, <1>3 DEF IInv

\* Every step keeps the invariant.
LEMMA Inductive == IInv /\ [Next]_vars => IInv'
<1> SUFFICES ASSUME IInv, [Next]_vars PROVE IInv'  OBVIOUS
<1>0. TypeOK /\ NestingOK /\ CountersMatch /\ BatchOK /\ LogOK /\ ReturnOK /\ (DistinctColumns => LoopsOK)
  BY DEF IInv
<1>1. frames' \in Seq(Frames) /\ Moves  BY <1>0, SkeletonMoves
<1>2. NestingOK' /\ CountersMatch'  BY <1>0, <1>1, NestingStep, CountersStep
<1>3. ToldOK'  BY <1>0, <1>1, <1>2, ToldStep
<1>4. DbOK'  BY <1>0, DbStep
<1>5. scope' \in [Vars -> Values \cup {Unset}] /\ pending' \in Values \cup {Unset}  BY <1>0, ScopeStep
<1>6. TypeOK'  BY <1>1, <1>3, <1>4, <1>5 DEF TypeOK, ToldOK, DbOK, Signals
<1>7. BatchOK' /\ LogOK'  BY <1>3, <1>4 DEF BatchOK, ToldOK, DbOK
<1>8. ReturnOK'  BY <1>0, <1>1, ReturnStep
<1>9. DistinctColumns => LoopsOK'  BY <1>0, <1>1, LoopsStep
<1>10. (DistinctColumns => LoopsOK)'  BY <1>9 DEF DistinctColumns
<1> QED  BY <1>2, <1>6, <1>7, <1>8, <1>10 DEF IInv

\* The inductive invariant holds in every state of every batch.
THEOREM Invariance == Spec => []IInv
BY InitHolds, Inductive, PTL DEF Spec

\* exec_depth and trigger_depth are at all times the numbers of calls under
\* way that they count, however statements end, and triggers never nest deeper
\* than MAX_TRIGGER_DEPTH (sql.rs exec and fire_triggers).
THEOREM StackHolds == Spec => []StackIsTold
<1>1. IInv => StackIsTold  BY DEF IInv, StackIsTold
<1> QED  BY <1>1, Invariance, PTL

\* One record for every top level statement, in order, and a failure only as
\* the last one (sql.rs exec).
THEOREM LogHolds == Spec => []LogTellsStatements
<1>1. IInv => LogTellsStatements
  <2> SUFFICES ASSUME IInv PROVE LogTellsStatements  OBVIOUS
  <2>1. LogOK  BY DEF IInv
  <2>2. DOMAIN log = 1..Len(log)  BY <2>1, LenProperties DEF LogOK
  <2> QED  BY <2>1, <2>2 DEF LogOK, LogTellsStatements
<1> QED  BY <1>1, Invariance, PTL

\* A batch answered with an error leaves what it had itself committed, and
\* nothing becomes durable but by COMMIT or by a batch that succeeds
\* (sql.rs exec_commit, server.rs exec_sql).
THEOREM CommitsAreWhole == Spec => NothingHalfCommitted
<1> DEFINE A == /\ saves' # <<>> => explicit'
                /\ reply' = "error" /\ reply # "error" => work' = durable /\ durable' = durable
                /\ durable' \subseteq durable \/ reply' = "ok" \/ (explicit /\ ~explicit' /\ work' = durable')
<1>1. IInv /\ [Next]_vars => [A]_vars
  <2> SUFFICES ASSUME IInv, Next PROVE A  OBVIOUS
  <2>0. TypeOK /\ BatchOK  BY DEF IInv
  <2>1. saves' # <<>> => explicit'  BY <2>0, DbStep DEF DbOK
  <2> DEFINE B == /\ reply' = "error" /\ reply # "error" => work' = durable /\ durable' = durable
                  /\ durable' \subseteq durable \/ reply' = "ok" \/ (explicit /\ ~explicit' /\ work' = durable')
  <2> SUFFICES B  BY <2>1
  <2>2. CASE StartBatch
    BY <2>2 DEF StartBatch
  <2>3. CASE EndBatch \/ FailBatch
    BY <2>3 DEF EndBatch, FailBatch, RolledBack
  <2>4. ASSUME UNCHANGED <<reply, durable>>  PROVE B
    BY <2>4
  <2>a. /\ \A sig : Simple(sig) => UNCHANGED reply
        /\ \A new : Enter(new) => UNCHANGED reply
        /\ \A n, sig : Leave(n, sig) => UNCHANGED reply
        /\ \A f : Stay(f) => UNCHANGED reply
    BY DEF Simple, Enter, Leave, Stay, Logged, told
  <2>5. CASE Commit
    <3>1. UNCHANGED reply  BY <2>a, <2>5 DEF Commit
    <3>2. UNCHANGED durable \/ (explicit /\ ~explicit' /\ work' = durable')  BY <2>5 DEF Commit
    <3>3. CASE UNCHANGED durable  BY <2>4, <3>1, <3>3
    <3>4. CASE explicit /\ ~explicit' /\ work' = durable'  BY <3>1, <3>4
    <3> QED  BY <3>2, <3>3, <3>4
  <2>6. ASSUME Transaction, ~Commit  PROVE B
    <3>1. UNCHANGED reply
      BY <2>a, <2>6 DEF Transaction, Begin, Rollback, Savepoint, RollbackTo, Release
    <3>2. UNCHANGED durable
      BY <2>6 DEF Transaction, Begin, Rollback, Savepoint, RollbackTo, Release, db
    <3> QED  BY <2>4, <3>1, <3>2
  <2>7. CASE Control
    <3>1. UNCHANGED reply
      BY <2>a, <2>7 DEF Control, Declare, SetVariable, CallFunction, Exit, Raise, If, Call, Block, Loop, For, ForRows,
                        Return, Logged
    <3>2. UNCHANGED durable
      BY <2>7 DEF Control, Declare, SetVariable, CallFunction, Exit, Raise, If, Call, Block, Loop, For, ForRows, Return, db
    <3> QED  BY <2>4, <3>1, <3>2
  <2>8. CASE Data
    <3>1. UNCHANGED <<reply, durable>>
      BY <2>a, <2>8 DEF Data, Insert, InsertWithTriggers, db
    <3> QED  BY <2>4, <3>1
  <2>9. ASSUME Proceeds, ~EndBatch, ~FailBatch  PROVE B
    <3>1. UNCHANGED reply
      BY <2>a, <2>9 DEF Proceeds, EndBody, Catch, FailBody, TurnLoop, ExitLoop, TurnFor, TurnRows, BreakFor,
                        FunctionReturns, FunctionEnds, FunctionFails, FireTrigger, LeaveTrigger, EndInsert, WriteRow, told
    <3>2. UNCHANGED durable
      BY <2>9 DEF Proceeds, EndBody, Catch, FailBody, TurnLoop, ExitLoop, TurnFor, TurnRows, BreakFor,
                  FunctionReturns, FunctionEnds, FunctionFails, FireTrigger, LeaveTrigger, EndInsert, WriteRow, db
    <3> QED  BY <2>4, <3>1, <3>2
  <2> QED  BY <2>2, <2>3, <2>5, <2>6, <2>7, <2>8, <2>9 DEF Next
<1> HIDE DEF A
<1>2. IInv /\ [Next]_vars => [A]_vars  BY <1>1
<1>3. NothingHalfCommitted <=> [][A]_vars  BY DEF NothingHalfCommitted, A
<1> QED  BY <1>2, <1>3, Invariance, PTL DEF Spec

\* A statement that begins leaves nothing.
LEMMA BeginsNoLeave ==
  ASSUME TypeOK, CountersMatch, Transaction \/ Control \/ Data
  PROVE  execDepth' # execDepth - 1
<1>1. execDepth \in Nat
  <2>1. DOMAIN frames = 1..Len(frames) /\ Len(frames) \in Nat  BY LenProperties DEF TypeOK
  <2>2. {i \in DOMAIN frames : frames[i].kind \in Statements} \in SUBSET (1..Len(frames))  BY <2>1
  <2>a. IsFiniteSet(1..Len(frames))  BY <2>1, FS_Interval
  <2>3. IsFiniteSet({i \in DOMAIN frames : frames[i].kind \in Statements})  BY <2>2, <2>a, FS_Subset
  <2> QED  BY <2>3, FS_CardinalityType DEF CountersMatch, CountOf
<1>2. /\ \A sig : Simple(sig) => execDepth' = execDepth
      /\ \A new : Enter(new) => execDepth' = execDepth + 1
  BY DEF Simple, Enter
<1>3. execDepth' = execDepth \/ execDepth' = execDepth + 1
  <2>1. CASE Transaction
    BY <1>2, <2>1 DEF Transaction, Begin, Commit, Rollback, Savepoint, RollbackTo, Release
  <2>2. CASE Control
    BY <1>2, <2>2 DEF Control, Declare, SetVariable, CallFunction, Exit, Raise, If, Call, Block, Loop, For, ForRows, Return
  <2>3. CASE Data
    BY <1>2, <2>3 DEF Data, Insert, InsertWithTriggers
  <2> QED  BY <2>1, <2>2, <2>3
<1> QED  BY <1>1, <1>3

\* The steps in which a function returns.
LEMMA FunctionStep ==
  ASSUME IInv, Next, Len(frames') = Len(frames) - 2
  PROVE  frames # <<>> /\ Top.kind = "function" /\ (FunctionReturns \/ FunctionEnds \/ FunctionFails)
<1>0. TypeOK /\ NestingOK /\ CountersMatch  BY DEF IInv
<1>1. Moves /\ frames' \in Seq(Frames)  BY <1>0, SkeletonMoves
<1>2. Len(frames) \in Nat /\ Len(frames') \in Nat  BY <1>0, <1>1, LenProperties DEF TypeOK
<1>3. LeavesFn
  <2>1. ~Ends
    <3>1. Ends => frames # <<>> /\ frames[Len(frames)].kind = "batch" /\ Len(frames') = 0  BY DEF Ends, Top
    <3>2. frames # <<>> /\ frames[Len(frames)].kind = "batch" => Len(frames) = 1
      BY <1>0, TopFrame DEF NestingOK
    <3> QED  BY <3>1, <3>2
  <2>2. ~Starts1
    <3>1. Starts1 => Len(frames') = 1 /\ Len(frames) = 0  BY DEF Starts1
    <3> QED  BY <3>1
  <2>3. Goes => Len(frames') = Len(frames)  BY DEF Goes
  <2>4. Enters \/ EntersFn \/ Fires => Len(frames') = Len(frames) + 1 \/ Len(frames') = Len(frames) + 2
    BY DEF Enters, EntersFn, Fires
  <2>5. Leaves \/ LeavesTr => Len(frames') = Len(frames) - 1  BY DEF Leaves, LeavesTr
  <2> DEFINE n == Len(frames)
             m == Len(frames')
  <2>6. n \in Nat /\ m \in Nat /\ m = n - 2  BY <1>2
  <2>7. (Goes => m = n) /\ (Enters \/ EntersFn \/ Fires => m = n + 1 \/ m = n + 2) /\ (Leaves \/ LeavesTr => m = n - 1)
    BY <2>3, <2>4, <2>5
  <2> HIDE DEF n, m
  <2> QED  BY <1>1, <2>1, <2>2, <2>6, <2>7 DEF Moves
<1>4. frames # <<>> /\ Top.kind = "function" /\ execDepth' = execDepth - 1  BY <1>3 DEF LeavesFn
<1>5. ~(Transaction \/ Control \/ Data)  BY <1>0, <1>4, BeginsNoLeave
<1>6. Proceeds  BY <1>4, <1>5 DEF Next, StartBatch
<1> QED
  BY <1>4, <1>6 DEF Proceeds, EndBatch, FailBatch, EndBody, Catch, Catches, FailBody, TurnLoop, ExitLoop, TurnFor, TurnRows,
                    BreakFor, FireTrigger, LeaveTrigger, EndInsert, WriteRow

\* The steps in which a loop over a range or over rows ends.
LEMMA LoopStep ==
  ASSUME IInv, Next, Len(frames') < Len(frames), Top.kind \in {"for", "rows"}
  PROVE  frames # <<>> /\ GiveBack(Top.saved)
<1>0. TypeOK /\ NestingOK /\ CountersMatch  BY DEF IInv
<1>1. Moves /\ frames' \in Seq(Frames)  BY <1>0, SkeletonMoves
<1>2. Len(frames) \in Nat /\ Len(frames') \in Nat /\ (frames = <<>> => Len(frames) = 0)
  BY <1>0, <1>1, LenProperties DEF TypeOK
<1>3. Leaves
  <2> DEFINE n == Len(frames)
             m == Len(frames')
  <2>1. (Goes => m = n) /\ (Enters \/ EntersFn \/ Fires => m = n + 1 \/ m = n + 2)
    BY DEF Goes, Enters, EntersFn, Fires
  <2>2. ~Ends /\ ~LeavesFn /\ ~LeavesTr  BY DEF Ends, LeavesFn, LeavesTr
  <2>3. Starts1 => m = 1 /\ n = 0  BY DEF Starts1
  <2>4. n \in Nat /\ m \in Nat /\ m < n  BY <1>2
  <2> HIDE DEF n, m
  <2> QED  BY <1>1, <2>1, <2>2, <2>3, <2>4 DEF Moves
<1>4. frames # <<>> /\ execDepth' = execDepth - 1  BY <1>3 DEF Leaves
<1>5. ~(Transaction \/ Control \/ Data)  BY <1>0, <1>4, BeginsNoLeave
<1>6. Proceeds  BY <1>4, <1>5 DEF Next, StartBatch
<1>7. TurnFor \/ TurnRows \/ BreakFor
  BY <1>6 DEF Proceeds, EndBatch, FailBatch, EndBody, Catch, Catches, FailBody, TurnLoop, ExitLoop,
              FunctionReturns, FunctionEnds, FunctionFails, FireTrigger, LeaveTrigger, EndInsert, WriteRow
<1>8. ASSUME NEW f, Stay(f)  PROVE FALSE
  <2>1. frames' = Append(Below, f)  BY <1>8 DEF Stay
  <2>2. Below \in Seq(Frames) /\ Len(Below) = Len(frames) - 1 /\ Len(frames) \in Nat \ {0}  BY <1>0, <1>4, TopFrame
  <2>3. Len(frames') = Len(Below) + 1
    <3> DEFINE R == Frames \cup {f}
    <3>1. Below \in Seq(R) /\ f \in R  BY <2>2, SeqMonotonic
    <3> HIDE DEF R
    <3> QED  BY <2>1, <3>1, AppendProperties
  <2> DEFINE n == Len(frames)
             m == Len(frames')
  <2>4. n \in Nat /\ m = n - 1 + 1 /\ m < n  BY <2>2, <2>3
  <2> HIDE DEF n, m
  <2> QED  BY <2>4
<1>9. GiveBack(Top.saved)
  BY <1>7, <1>8 DEF TurnFor, TurnRows, BreakFor
<1> QED  BY <1>4, <1>9

\* SET x = f() stores what the last RETURN of that very call said, NULL when it
\* ran into its END (sql.rs eval_user_func).
THEOREM ValuesHold == Spec => ValueIsItsOwn
<1> DEFINE A == Len(frames') = Len(frames) - 2 /\ signal' = "ok" =>
                  scope'[frames[Len(frames) - 1].key] = IF signal = "return" THEN Top.said ELSE Null
<1>1. IInv /\ [Next]_vars => [A]_vars
  <2> SUFFICES ASSUME IInv, Next, Len(frames') = Len(frames) - 2, signal' = "ok"
               PROVE  scope'[frames[Len(frames) - 1].key] = IF signal = "return" THEN Top.said ELSE Null
    OBVIOUS
  <2>0. TypeOK /\ NestingOK /\ ReturnOK  BY DEF IInv
  <2>1. frames # <<>> /\ Top.kind = "function" /\ (FunctionReturns \/ FunctionEnds \/ FunctionFails)  BY FunctionStep
  <2>2. Len(frames) \in Nat \ {0} /\ frames \in Seq(Frames) /\ DOMAIN frames = 1..Len(frames)
    BY <2>0, <2>1, TopFrame, LenProperties DEF TypeOK
  <2>3. frames[Len(frames) - 1].key \in Vars
    <3>1. Len(frames) >= 2 /\ frames[Len(frames) - 1].kind = "set"  BY <2>0, <2>1, FunctionIsCalled
    <3>2. Len(frames) - 1 \in 1..Len(frames)  BY <2>2, <3>1
    <3>3. frames[Len(frames) - 1] \in Frames  BY <2>2, <3>2, ElementOfSeq
    <3> QED  BY <3>1, <3>3, FrameFields DEF Vars
  <2>4. CASE FunctionReturns
    <3>1. signal = "return" /\ Assigned(pending)  BY <2>4 DEF FunctionReturns
    <3>2. Len(frames) \in Calls /\ \A j \in Calls : j <= Len(frames)
      BY <2>1, <2>2 DEF Calls, Top
    <3>3. pending = Top.said  BY <2>0, <3>1, <3>2 DEF ReturnOK, Top
    <3> QED  BY <2>0, <2>3, <3>1, <3>3 DEF Assigned, TypeOK
  <2>5. CASE FunctionEnds
    <3>1. signal = "ok" /\ Assigned(Null)  BY <2>5 DEF FunctionEnds, Running
    <3> QED  BY <2>0, <2>3, <3>1 DEF Assigned, TypeOK
  <2>6. CASE FunctionFails
    BY <2>6 DEF FunctionFails, Failing, Leave
  <2> QED  BY <2>1, <2>4, <2>5, <2>6
<1> HIDE DEF A
<1>2. IInv /\ [Next]_vars => [A]_vars  BY <1>1
<1>3. ValueIsItsOwn <=> [][A]_vars  BY DEF ValueIsItsOwn, A
<1> QED  BY <1>2, <1>3, Invariance, PTL DEF Spec

\* A loop leaves every one of its names as it found it, however it ends, and a
\* function its value: when no SELECT of a loop has two columns of one name
\* (sql.rs exec_for and exec_for_select).
THEOREM ScopesHold ==
  ASSUME DistinctColumns
  PROVE  Spec => ScopesAreKept
<1> DEFINE A == Len(frames') < Len(frames) /\ Top.kind \in {"for", "rows"} =>
                  \A i \in DOMAIN Top.saved :
                    LET x == Top.saved[i].key
                    IN scope'[x] = Top.saved[Min(Places(Top.saved, x))].was
<1>1. IInv /\ [Next]_vars => [A]_vars
  <2> SUFFICES ASSUME IInv, Next, Len(frames') < Len(frames), Top.kind \in {"for", "rows"}, NEW i \in DOMAIN Top.saved
               PROVE  scope'[Top.saved[i].key] = Top.saved[Min(Places(Top.saved, Top.saved[i].key))].was
    OBVIOUS
  <2> DEFINE s == Top.saved
             x == s[i].key
  <2>0. TypeOK /\ LoopsOK  BY DEF IInv
  <2>1. frames # <<>> /\ GiveBack(s)  BY LoopStep
  <2>2. Top \in Frames /\ Len(frames) \in 1..Len(frames)  BY <2>0, <2>1, TopFrame
  <2>3. s \in Seq([key : Vars, was : Values \cup {Unset}])  BY <2>2, FrameFields
  <2>4. NamesOnce(Top)  BY <2>0, <2>2 DEF LoopsOK, Top
  <2>5. DOMAIN s = 1..Len(s) /\ Len(s) \in Nat /\ s[i] \in [key : Vars, was : Values \cup {Unset}] /\ i \in Nat
    <3>1. i \in DOMAIN s  OBVIOUS
    <3> HIDE DEF s
    <3>2. DOMAIN s = 1..Len(s) /\ Len(s) \in Nat  BY <2>3, LenProperties
    <3>3. s[i] \in [key : Vars, was : Values \cup {Unset}]  BY <2>3, <3>1, <3>2, ElementOfSeq
    <3> QED  BY <3>1, <3>2, <3>3
  <2>6. Places(s, x) = {i}  BY <2>4 DEF NamesOnce, Places
  <2>7. Max({i}) = i /\ Min({i}) = i  BY <2>5 DEF Max, Min
  <2>8. x \in Vars  BY <2>5
  <2> HIDE DEF s, x
  <2>9. scope'[x] = s[Max(Places(s, x))].was  BY <2>1, <2>6, <2>8 DEF GiveBack
  <2>10. scope'[x] = s[Min(Places(s, x))].was  BY <2>6, <2>7, <2>9
  <2> QED  BY <2>10 DEF s, x
<1> HIDE DEF A
<1>2. IInv /\ [Next]_vars => [A]_vars  BY <1>1
<1>3. ScopeGivenBack <=> [][A]_vars  BY DEF ScopeGivenBack, A
<1>4. Spec => ScopeGivenBack  BY <1>2, <1>3, Invariance, PTL DEF Spec
<1> QED  BY <1>4, ValuesHold, PTL DEF ScopesAreKept
=============================================================================
