------------------------------- MODULE Script -------------------------------
(***************************************************************************)
(* One request's batch of statements in the engine: the control flow of    *)
(* Engine::exec with its blocks, loops, functions, procedures and          *)
(* triggers, and the transaction the batch runs in.  The recursion of exec *)
(* is the stack frames; a Result::Err on its way up is signal.  Which      *)
(* statement comes next, and what a condition evaluates to, is the         *)
(* program's choice: every batch whose statements nest up to MaxFrames is  *)
(* a behaviour.                                                            *)
(***************************************************************************)
EXTENDS Integers, Sequences, FiniteSets, SequencesExt, FiniteSetsExt

CONSTANTS
  Names, Fields,    \* variables x and record fields r.c: the keys of var_scope
  MinInt, MaxInt,   \* the ends of i64
  Null, Unset,      \* SQL NULL; no entry in var_scope
  SpNames,          \* savepoint names
  Columns,          \* the names a FOR ... IN (SELECT) injects, in the select's order
  Ranges,           \* the bounds, step and direction of FOR loops
  MaxLoop,          \* MAX_LOOP_ITERATIONS
  MaxTriggerDepth,  \* MAX_TRIGGER_DEPTH
  MaxFrames,        \* bound: nesting of a behaviour
  MaxStatements     \* bound: statements of a batch

Vars   == Names \cup Fields
Ints   == MinInt..MaxInt
Values == Ints \cup {Null}

ASSUME Limits ==
  /\ MaxInt \in Nat \ {0} /\ MinInt = -MaxInt - 1
  /\ Null \notin Ints /\ Unset \notin Values
  /\ Columns \subseteq Seq(Fields)
  /\ Ranges \subseteq [from : Ints, to : Ints, step : Ints, reverse : BOOLEAN]
  /\ MaxLoop \in Nat \ {0}
  /\ MaxTriggerDepth \in Nat \ {0}
  /\ MaxFrames \in Nat
  /\ MaxStatements \in Nat

VARIABLES
  frames,        \* the calls under way, the batch first
  signal,        \* "ok", or the error on its way to the frame below
  scope,         \* var_scope
  pending,       \* pending_return_value, Unset for None
  explicit,      \* explicit_tx
  execDepth,     \* exec_depth
  triggerDepth,  \* trigger_depth
  work,          \* the batch's statements whose rows the transaction holds
  saves,         \* its savepoints, oldest first
  durable,       \* the batch's statements whose rows a restart shows
  log,           \* the batch's records, as handed to the logger
  stmtIndex,     \* log_stmt_index
  count,         \* the batch's statements begun so far
  reply          \* what the client was told of its last batch

db   == <<work, saves, durable>>
calls == <<frames, signal, execDepth, triggerDepth>>
told == <<log, stmtIndex, reply>>
vars == <<calls, scope, pending, explicit, db, told, count>>

\* "data" stands for every error of a data statement; the other codes are
\* raised here.
Codes == {"raise", "limit", "depth", "scope", "range", "tx", "io", "data"}

\* The filters of a block: none, one code by number or by name, OTHERS.
Handlers == {{}, {"limit"}, {"others"}}

Frames ==
       [kind : {"batch", "branch", "trigger"}]
  \cup [kind : {"loop"}, cond : BOOLEAN, iter : 0..(MaxLoop - 1)]
  \cup [kind : {"for"}, saved : Seq([key : Vars, was : Values \cup {Unset}]), iter : 0..(MaxLoop - 1),
        at : Ints, to : Ints, by : Ints \ {0}]
  \cup [kind : {"rows"}, saved : Seq([key : Vars, was : Values \cup {Unset}]), iter : 0..(MaxLoop - 1), rows : Nat]
  \cup [kind : {"block"}, handlers : Handlers, caught : BOOLEAN]
  \cup [kind : {"set"}, key : Names]
  \cup [kind : {"function"}, prev : Values \cup {Unset}, said : Values]
  \cup [kind : {"dml"}, id : 0..MaxStatements, written : BOOLEAN, left : Nat]

\* The frames that are calls of exec, and the frames statements run in.
Statements == {"branch", "loop", "for", "rows", "block", "set", "dml"}
Bodies     == {"batch", "branch", "loop", "for", "rows", "block", "function", "trigger"}

Top     == frames[Len(frames)]
Below   == Front(frames)
Running == frames # <<>> /\ signal = "ok"
Failing == frames # <<>> /\ signal # "ok"

Init ==
  /\ frames = <<>> /\ signal = "ok"
  /\ scope = [x \in Vars |-> Unset] /\ pending = Unset
  /\ explicit = FALSE /\ execDepth = 0 /\ triggerDepth = 0
  /\ work = {} /\ saves = <<>> /\ durable = {}
  /\ log = <<>> /\ stmtIndex = 0 /\ reply = "none" /\ count = 0

(***************************************************************************)
(* Engine::exec around every statement                                     *)
(***************************************************************************)
\* Mutant of Logged: statements inside bodies are logged as well.
LoggedAlways(sig, depth) ==
  /\ UNCHANGED reply
  /\ log' = Append(log, [index |-> stmtIndex, ok |-> sig = "ok"])
  /\ stmtIndex' = stmtIndex + 1

\* A statement ends with sig; at depth 0 that is one record of the log.
Logged(sig, depth) ==
  /\ UNCHANGED reply
  /\ IF depth = 0
     THEN /\ log' = Append(log, [index |-> stmtIndex, ok |-> sig = "ok"])
          /\ stmtIndex' = stmtIndex + 1
     ELSE UNCHANGED <<log, stmtIndex>>

Starts ==
  /\ Running
  /\ Top.kind \in Bodies
  /\ count < MaxStatements
  /\ count' = count + 1

\* A statement without a body: exec is entered and left in one step.
Simple(sig) ==
  /\ Starts
  /\ signal' = sig
  /\ Logged(sig, execDepth)
  /\ UNCHANGED <<frames, execDepth, triggerDepth>>

\* A statement that opens the frames new, one of them a call of exec.
Enter(new) ==
  /\ Starts
  /\ Len(frames) + Len(new) <= MaxFrames
  /\ frames' = frames \o new
  /\ execDepth' = execDepth + 1
  /\ UNCHANGED <<signal, triggerDepth, told>>

\* The n frames on top, one of them a call of exec, return sig.
Leave(n, sig) ==
  /\ frames' = SubSeq(frames, 1, Len(frames) - n)
  /\ signal' = sig
  /\ execDepth' = execDepth - 1
  /\ Logged(sig, execDepth - 1)
  /\ UNCHANGED <<triggerDepth, count>>

Stay(f) ==
  /\ frames' = Append(Below, f)
  /\ signal' = "ok"
  /\ UNCHANGED <<execDepth, triggerDepth, told, count>>

(***************************************************************************)
(* The batch                                                               *)
(***************************************************************************)
\* A new Engine over a Pager whose begin has just succeeded.
StartBatch ==
  /\ frames = <<>>
  /\ frames' = <<[kind |-> "batch"]>>
  /\ scope' = [x \in Vars |-> Unset]
  /\ pending' = Unset
  /\ explicit' = FALSE
  /\ log' = <<>> /\ stmtIndex' = 0 /\ reply' = "none" /\ count' = 0
  /\ work' = {} /\ durable' = {} /\ saves' = <<>>
  /\ UNCHANGED <<signal, execDepth, triggerDepth>>

RolledBack ==
  /\ work' = durable
  /\ saves' = <<>>
  /\ reply' = "error"
  /\ UNCHANGED durable

\* The last statement succeeded: the wrapper commits, an open BEGIN or not.
EndBatch ==
  /\ Running
  /\ Top.kind = "batch"
  /\ frames' = <<>>
  /\ \/ durable' = work /\ saves' = <<>> /\ reply' = "ok" /\ UNCHANGED work
     \/ RolledBack
  /\ UNCHANGED <<signal, execDepth, triggerDepth, scope, pending, explicit, log, stmtIndex, count>>

FailBatch ==
  /\ Failing
  /\ Top.kind = "batch"
  /\ frames' = <<>>
  /\ signal' = "ok"
  /\ RolledBack
  /\ UNCHANGED <<execDepth, triggerDepth, scope, pending, explicit, log, stmtIndex, count>>

(***************************************************************************)
(* Variables, EXIT, RAISE, IF, CASE, CALL and blocks                       *)
(***************************************************************************)
Declare(x) ==
  /\ IF scope[x] # Unset
     THEN Simple("scope") /\ UNCHANGED scope
     ELSE /\ Simple("ok")
          /\ scope' = [scope EXCEPT ![x] = 0]
  /\ UNCHANGED <<pending, explicit, db>>

SetVariable(x) ==
  /\ IF scope[x] = Unset
     THEN Simple("scope") /\ UNCHANGED scope
     ELSE /\ Simple("ok")
          /\ scope' = [scope EXCEPT ![x] = 1]
  /\ UNCHANGED <<pending, explicit, db>>

Exit ==
  /\ Simple("exit") \/ Simple("ok")          \* EXIT WHEN a false condition
  /\ UNCHANGED <<scope, pending, explicit, db>>

Raise ==
  /\ Simple("raise") \/ Simple("ok")         \* NOTICE, WARNING, INFO
  /\ UNCHANGED <<scope, pending, explicit, db>>

\* IF and CASE: the chosen branch, no branch, or a condition that is no BOOL.
If ==
  /\ \/ Enter(<<[kind |-> "branch"]>>)
     \/ Simple("ok")
     \/ Simple("range")
  /\ UNCHANGED <<scope, pending, explicit, db>>

\* The body of a procedure, or none: unknown name, wrong arity, bad argument.
Call ==
  /\ Enter(<<[kind |-> "branch"]>>) \/ Simple("data")
  /\ UNCHANGED <<scope, pending, explicit, db>>

Block(h) ==
  /\ Enter(<<[kind |-> "block", handlers |-> h, caught |-> FALSE]>>)
  /\ UNCHANGED <<scope, pending, explicit, db>>

EndBody ==
  /\ Running
  /\ Top.kind \in {"branch", "block"}
  /\ Leave(1, "ok")
  /\ UNCHANGED <<scope, pending, explicit, db>>

\* An EXIT passes through; RETURN has no code, so only OTHERS stops it.
Catches(f) ==
  /\ f.kind = "block"
  /\ ~f.caught
  /\ signal # "exit"
  /\ f.handlers \cap {signal, "others"} # {}

\* What the body did stays done: no savepoint is taken for a block.
Catch ==
  /\ Failing
  /\ Catches(Top)
  /\ Stay([Top EXCEPT !.caught = TRUE])
  /\ UNCHANGED <<scope, pending, explicit, db>>

FailBody ==
  /\ Failing
  /\ \/ Top.kind \in {"branch", "dml"}
     \/ Top.kind = "block" /\ ~Catches(Top)
     \/ Top.kind = "loop" /\ signal # "exit"
  /\ Leave(1, signal)
  /\ UNCHANGED <<scope, pending, explicit, db>>

(***************************************************************************)
(* Loops                                                                   *)
(***************************************************************************)
\* WHILE whose condition holds at first (c), or LOOP.
Loop(c) ==
  /\ Enter(<<[kind |-> "loop", cond |-> c, iter |-> 0]>>)
  /\ UNCHANGED <<scope, pending, explicit, db>>

\* Mutant of TurnLoop: the limit is tested one turn late.
TurnLoopLate ==
  /\ Running
  /\ Top.kind = "loop"
  /\ LET n == Top.iter + 1 IN
     \/ n > MaxLoop /\ Leave(1, "limit")
     \/ n <= MaxLoop /\ Stay([Top EXCEPT !.iter = n])
     \/ n <= MaxLoop /\ Top.cond /\ \E sig \in {"ok", "range"} : Leave(1, sig)
  /\ UNCHANGED <<scope, pending, explicit, db>>

\* Mutant of TurnLoop: the turns are not counted.
TurnLoopForEver ==
  /\ Running
  /\ Top.kind = "loop"
  /\ \/ Stay(Top)
     \/ Top.cond /\ \E sig \in {"ok", "range"} : Leave(1, sig)
  /\ UNCHANGED <<scope, pending, explicit, db>>

\* The limit is looked at before the condition, which may not be a BOOL.
TurnLoop ==
  /\ Running
  /\ Top.kind = "loop"
  /\ LET n == Top.iter + 1 IN
     \/ n = MaxLoop /\ Leave(1, "limit")
     \/ n < MaxLoop /\ Stay([Top EXCEPT !.iter = n])
     \/ n < MaxLoop /\ Top.cond /\ \E sig \in {"ok", "range"} : Leave(1, sig)
  /\ UNCHANGED <<scope, pending, explicit, db>>

ExitLoop ==
  /\ Failing
  /\ Top.kind = "loop"
  /\ signal = "exit"
  /\ Leave(1, "ok")
  /\ UNCHANGED <<scope, pending, explicit, db>>

\* The loop variables leave the scope one by one, so a name listed twice is
\* found the first time only.
Saved(keys) ==
  [i \in DOMAIN keys |->
     [key |-> keys[i],
      was |-> IF \E j \in 1..(i - 1) : keys[j] = keys[i] THEN Unset ELSE scope[keys[i]]]]

Places(saved, x) == {i \in DOMAIN saved : saved[i].key = x}

GiveBack(saved) ==
  scope' = [x \in Vars |->
              IF Places(saved, x) = {} THEN scope[x] ELSE saved[Max(Places(saved, x))].was]

Inject(saved, v) ==
  scope' = [x \in Vars |-> IF Places(saved, x) = {} THEN scope[x] ELSE v]

\* i64: unsigned_abs() as i64 and - wrap at the smallest, saturating_add stops.
Magnitude(n) == IF n < 0 /\ n # MinInt THEN -n ELSE n
Negated(n)   == IF n = MinInt THEN n ELSE -n
Stepped(i, by) == IF i + by > MaxInt THEN MaxInt ELSE IF i + by < MinInt THEN MinInt ELSE i + by
InRange(i, to, by) == IF by > 0 THEN i <= to ELSE i >= to

For(x, range) ==
  LET by == IF range.reverse THEN Negated(Magnitude(range.step)) ELSE Magnitude(range.step)
      from == range.from
      to == range.to
      saved == Saved(<<x>>)
  IN /\ IF by = 0
        THEN Simple("range") /\ UNCHANGED scope
        ELSE IF ~InRange(from, to, by)
        THEN Simple("ok") /\ UNCHANGED scope
        ELSE /\ Enter(<<[kind |-> "for", saved |-> saved, iter |-> 0,
                         at |-> from, to |-> to, by |-> by]>>)
             /\ Inject(saved, from)
     /\ UNCHANGED <<pending, explicit, db>>

\* The range is looked at before the limit.
TurnFor ==
  /\ Running
  /\ Top.kind = "for"
  /\ LET i == Stepped(Top.at, Top.by)
         n == Top.iter + 1
     IN IF ~InRange(i, Top.to, Top.by)
        THEN Leave(1, "ok") /\ GiveBack(Top.saved)
        ELSE IF n = MaxLoop
        THEN Leave(1, "limit") /\ GiveBack(Top.saved)
        ELSE Stay([Top EXCEPT !.iter = n, !.at = i]) /\ Inject(Top.saved, i)
  /\ UNCHANGED <<pending, explicit, db>>

ForRows(keys, rows) ==
  LET saved == Saved(keys)
  IN /\ IF rows = 0
        THEN Simple("ok") /\ UNCHANGED scope
        ELSE /\ Enter(<<[kind |-> "rows", saved |-> saved, iter |-> 0, rows |-> rows]>>)
             /\ Inject(saved, Null)
     /\ UNCHANGED <<pending, explicit, db>>

TurnRows ==
  /\ Running
  /\ Top.kind = "rows"
  /\ LET n == Top.iter + 1
     IN IF n = Top.rows
        THEN Leave(1, "ok") /\ GiveBack(Top.saved)
        ELSE IF n = MaxLoop
        THEN Leave(1, "limit") /\ GiveBack(Top.saved)
        ELSE Stay([Top EXCEPT !.iter = n]) /\ Inject(Top.saved, 1)
  /\ UNCHANGED <<pending, explicit, db>>

\* Mutant of BreakFor: only an EXIT gives the names back.
BreakForKeeping ==
  /\ Failing
  /\ Top.kind \in {"for", "rows"}
  /\ Leave(1, IF signal = "exit" THEN "ok" ELSE signal)
  /\ IF signal = "exit" THEN GiveBack(Top.saved) ELSE UNCHANGED scope
  /\ UNCHANGED <<pending, explicit, db>>

\* An EXIT ends the loop well, any other error ends it badly; both give the
\* loop's names back.
BreakFor ==
  /\ Failing
  /\ Top.kind \in {"for", "rows"}
  /\ Leave(1, IF signal = "exit" THEN "ok" ELSE signal)
  /\ GiveBack(Top.saved)
  /\ UNCHANGED <<pending, explicit, db>>

(***************************************************************************)
(* Functions: SET x = f(...), with f's body of several statements          *)
(***************************************************************************)
CallFunction(x) ==
  /\ scope[x] # Unset
  /\ Enter(<<[kind |-> "set", key |-> x],
             [kind |-> "function", prev |-> pending, said |-> Null]>>)
  /\ pending' = Unset
  /\ UNCHANGED <<scope, explicit, db>>

Calls == {i \in DOMAIN frames : frames[i].kind = "function"}

\* said is a ghost: what the innermost call's last RETURN said.
Return(v) ==
  /\ Starts
  /\ frames' = IF Calls = {} THEN frames ELSE [frames EXCEPT ![Max(Calls)].said = v]
  /\ signal' = "return"
  /\ pending' = v
  /\ Logged("return", execDepth)
  /\ UNCHANGED <<execDepth, triggerDepth, scope, explicit, db>>

Assigned(v) == scope' = [scope EXCEPT ![frames[Len(frames) - 1].key] = v]

\* Mutant of FunctionReturns: the caller's value is put back before it is read.
FunctionReturnsOuter ==
  /\ Failing
  /\ Top.kind = "function"
  /\ signal = "return"
  /\ Leave(2, "ok")
  /\ Assigned(IF Top.prev = Unset THEN Null ELSE Top.prev)
  /\ pending' = Top.prev
  /\ UNCHANGED <<explicit, db>>

FunctionReturns ==
  /\ Failing
  /\ Top.kind = "function"
  /\ signal = "return"
  /\ Leave(2, "ok")
  /\ Assigned(pending)
  /\ pending' = Top.prev
  /\ UNCHANGED <<explicit, db>>

FunctionEnds ==
  /\ Running
  /\ Top.kind = "function"
  /\ Leave(2, "ok")
  /\ Assigned(Null)
  /\ pending' = Top.prev
  /\ UNCHANGED <<explicit, db>>

FunctionFails ==
  /\ Failing
  /\ Top.kind = "function"
  /\ signal # "return"
  /\ Leave(2, signal)
  /\ pending' = Top.prev
  /\ UNCHANGED <<scope, explicit, db>>

(***************************************************************************)
(* Data statements and the triggers around them                            *)
(***************************************************************************)
\* A statement that fails may have written some of its rows.
Written(id, sig) == work' \in {work \cup {id}} \cup (IF sig = "ok" THEN {} ELSE {work})

Insert ==
  /\ \E sig \in {"ok", "data"} : Simple(sig) /\ Written(count, sig)
  /\ UNCHANGED <<scope, pending, explicit, saves, durable>>

InsertWithTriggers(before) ==
  /\ Len(frames) + 2 <= MaxFrames
  /\ Enter(<<[kind |-> "dml", id |-> count, written |-> FALSE, left |-> before]>>)
  /\ UNCHANGED <<scope, pending, explicit, db>>

FireTrigger ==
  /\ Running
  /\ Top.kind = "dml"
  /\ Top.left > 0
  /\ IF triggerDepth >= MaxTriggerDepth
     THEN Leave(1, "depth")
     ELSE /\ frames' = Below \o <<[Top EXCEPT !.left = @ - 1], [kind |-> "trigger"]>>
          /\ triggerDepth' = triggerDepth + 1
          /\ UNCHANGED <<signal, execDepth, told, count>>
  /\ UNCHANGED <<scope, pending, explicit, db>>

\* Mutant of LeaveTrigger: an error leaves without the decrement.
LeaveTriggerByError ==
  /\ frames # <<>>
  /\ Top.kind = "trigger"
  /\ frames' = Below
  /\ triggerDepth' = IF signal = "ok" THEN triggerDepth - 1 ELSE triggerDepth
  /\ UNCHANGED <<signal, execDepth, told, count, scope, pending, explicit, db>>

\* The body has ended, well or not.
LeaveTrigger ==
  /\ frames # <<>>
  /\ Top.kind = "trigger"
  /\ frames' = Below
  /\ triggerDepth' = triggerDepth - 1
  /\ UNCHANGED <<signal, execDepth, told, count, scope, pending, explicit, db>>

WriteRow(after) ==
  /\ Running
  /\ Top.kind = "dml" /\ Top.left = 0 /\ ~Top.written
  /\ \/ Stay([Top EXCEPT !.written = TRUE, !.left = after]) /\ Written(Top.id, "ok")
     \/ Leave(1, "data") /\ Written(Top.id, "data")
  /\ UNCHANGED <<scope, pending, explicit, saves, durable>>

EndInsert ==
  /\ Running
  /\ Top.kind = "dml" /\ Top.left = 0 /\ Top.written
  /\ Leave(1, "ok")
  /\ UNCHANGED <<scope, pending, explicit, db>>

(***************************************************************************)
(* Transaction statements, legal in any body                               *)
(***************************************************************************)
Begin ==
  /\ IF explicit THEN Simple("tx") ELSE Simple("ok")
  /\ explicit' = TRUE
  /\ UNCHANGED <<scope, pending, db>>

\* pager.commit and a new pager.begin.  A commit that fails changes nothing.
Commit ==
  /\ \/ ~explicit /\ Simple("tx") /\ UNCHANGED <<durable, saves, explicit>>
     \/ explicit /\ Simple("io") /\ UNCHANGED <<durable, saves, explicit>>
     \/ explicit /\ Simple("ok") /\ durable' = work /\ saves' = <<>> /\ explicit' = FALSE
  /\ UNCHANGED <<scope, pending, work>>

\* Mutant of Rollback: the savepoints outlive their transaction.
RollbackKeepsSavepoints ==
  /\ IF ~explicit
     THEN Simple("tx") /\ UNCHANGED <<work, saves, explicit>>
     ELSE Simple("ok") /\ work' = durable /\ explicit' = FALSE /\ UNCHANGED saves
  /\ UNCHANGED <<scope, pending, durable>>

\* All since the last pager.begin goes, statements before BEGIN included.
Rollback ==
  /\ IF ~explicit
     THEN Simple("tx") /\ UNCHANGED <<work, saves, explicit>>
     ELSE Simple("ok") /\ work' = durable /\ saves' = <<>> /\ explicit' = FALSE
  /\ UNCHANGED <<scope, pending, durable>>

Savepoint(n) ==
  /\ IF ~explicit
     THEN Simple("tx") /\ UNCHANGED saves
     ELSE Simple("ok") /\ saves' = Append(saves, [name |-> n, work |-> work])
  /\ UNCHANGED <<scope, pending, explicit, work, durable>>

Named(n) == {i \in DOMAIN saves : saves[i].name = n}

RollbackTo(n) ==
  /\ IF ~explicit \/ Named(n) = {}
     THEN Simple("tx") /\ UNCHANGED <<work, saves>>
     ELSE /\ Simple("ok")
          /\ work' = saves[Max(Named(n))].work
          /\ saves' = SubSeq(saves, 1, Max(Named(n)))
  /\ UNCHANGED <<scope, pending, explicit, durable>>

Release(n) ==
  /\ IF ~explicit \/ Named(n) = {}
     THEN Simple("tx") /\ UNCHANGED saves
     ELSE Simple("ok") /\ saves' = SubSeq(saves, 1, Max(Named(n)) - 1)
  /\ UNCHANGED <<scope, pending, explicit, work, durable>>

Transaction == Begin \/ Commit \/ Rollback \/ \E n \in SpNames : Savepoint(n) \/ RollbackTo(n) \/ Release(n)

Control ==
  \/ \E x \in Names : Declare(x) \/ SetVariable(x) \/ CallFunction(x)
  \/ Exit \/ Raise \/ If \/ Call
  \/ \E h \in Handlers : Block(h)
  \/ \E c \in BOOLEAN : Loop(c)
  \/ \E x \in Names, range \in Ranges : For(x, range)
  \/ \E keys \in Columns, rows \in 0..(MaxLoop + 1) : ForRows(keys, rows)
  \/ \E v \in {0, 1} : Return(v)

Data == Insert \/ \E n \in {0, 1} : InsertWithTriggers(n)

Proceeds ==
  \/ EndBatch \/ FailBatch
  \/ EndBody \/ Catch \/ FailBody
  \/ TurnLoop \/ ExitLoop \/ TurnFor \/ TurnRows \/ BreakFor
  \/ FunctionReturns \/ FunctionEnds \/ FunctionFails
  \/ FireTrigger \/ LeaveTrigger \/ EndInsert
  \/ \E n \in {0, 1} : WriteRow(n)

Next == StartBatch \/ Transaction \/ Control \/ Data \/ Proceeds

\* One thread runs the batch to its end; nothing makes a client send another.
Spec == Init /\ [][Next]_vars /\ WF_vars(Next)

(***************************************************************************)
(* Properties                                                              *)
(***************************************************************************)
TypeOK ==
  /\ frames \in Seq(Frames)
  /\ signal \in {"ok", "exit", "return"} \cup Codes
  /\ scope \in [Vars -> Values \cup {Unset}]
  /\ pending \in Values \cup {Unset}
  /\ explicit \in BOOLEAN
  /\ {work, durable} \subseteq SUBSET (0..MaxStatements)
  /\ saves \in Seq([name : SpNames, work : SUBSET (0..MaxStatements)])
  /\ stmtIndex \in Nat
  /\ reply \in {"none", "ok", "error"}
  /\ count \in 0..MaxStatements

CountOf(kinds) == Cardinality({i \in DOMAIN frames : frames[i].kind \in kinds})

\* The counters the engine keeps beside its own call stack tell the truth
\* however statements end: exec_depth decides what is logged (sql.rs:3340),
\* trigger_depth when a cascade is cut (sql.rs:8018).
CountersMatch ==
  /\ execDepth = CountOf(Statements)
  /\ triggerDepth = CountOf({"trigger"})
  /\ triggerDepth <= MaxTriggerDepth

\* The log has one record for each top level statement that has ended, in
\* order, and only the one that ended the batch is a failure: a CALL or a loop
\* writes one line, however many statements it runs and however they fail.
LogTellsStatements ==
  /\ stmtIndex = Len(log)
  /\ \A i \in DOMAIN log : log[i].index = i - 1
  /\ \A i \in DOMAIN log : ~log[i].ok => i = Len(log) /\ (reply = "error" \/ Failing)

\* Savepoints live inside BEGIN and COMMIT, or ROLLBACK, only; a batch that is
\* answered with an error leaves of its work what it had committed itself, and
\* nothing reaches the disk but by a COMMIT after BEGIN or by a batch that is
\* answered with success.
NothingHalfCommitted ==
  [][ /\ saves' # <<>> => explicit'
      /\ reply' = "error" /\ reply # "error" => work' = durable /\ durable' = durable
      /\ durable' \subseteq durable \/ reply' = "ok" \/ (explicit /\ ~explicit' /\ work' = durable') ]_vars

\* A loop ends with each of its names as the loop found it, whichever way it
\* ends: end of the range or of the rows, EXIT, limit, error, RETURN.
ScopeGivenBack ==
  [][ Len(frames') < Len(frames) /\ Top.kind \in {"for", "rows"} =>
        \A i \in DOMAIN Top.saved :
          LET x == Top.saved[i].key
          IN scope'[x] = Top.saved[Min(Places(Top.saved, x))].was ]_vars

\* SET x = f() stores what the last RETURN of that very call said, and NULL
\* when it ran into its END: never the value of a call inside or around it.
ValueIsItsOwn ==
  [][ Len(frames') = Len(frames) - 2 /\ signal' = "ok" =>
        scope'[frames[Len(frames) - 1].key] =
          IF signal = "return" THEN Top.said ELSE Null ]_vars

\* Whatever its loops, triggers and handlers do, a batch is answered.
BatchEnds == frames # <<>> ~> frames = <<>>

\* The engine's state is well typed and its counters are those of its stack.
StackIsTold == TypeOK /\ CountersMatch

\* What a block or a call has borrowed it gives back, and no more: the names of a
\* loop, and the value of a function.
ScopesAreKept == ScopeGivenBack /\ ValueIsItsOwn
=============================================================================
