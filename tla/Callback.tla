------------------------------ MODULE Callback ------------------------------
(***************************************************************************)
(* OnceCallback, RepeatingCallback and the helpers made of them.  A bind   *)
(* state is what base::Bind* allocates: a functor and its bound arguments. *)
(* Callback variables own it together, through scoped_refptr; so do other  *)
(* bind states it was bound into, and every call in progress.              *)
(*                                                                         *)
(* A functor is code of the program: it may reset, assign, move or run any *)
(* variable of its thread, the one it was run from included.  frames[t] is *)
(* the part of the call stack of t that functional/ knows of: a frame for  *)
(* each call of a bind state, for each scoped_refptr that is about to let  *)
(* go of one, and for each bind state being destroyed.  Reference counts   *)
(* are taken for what RefCounted shows them to be: the number of places    *)
(* that hold the object.                                                   *)
(***************************************************************************)
EXTENDS Integers, SequencesExt

CONSTANTS
  Threads,
  OnceVars, RepeatingVars, Runners,  \* OnceCallback, RepeatingCallback and
                                     \* ScopedClosureRunner variables
  VarsOf,        \* the variables of each thread
  BindStates,    \* the bind states that can be made
  Null,
  Owner,         \* the sequence of the object that WeakPtrs are bound to
  MaxDepth,      \* how deep calls nest
  MaxSteps       \* how many operations the program performs

Vars == OnceVars \cup RepeatingVars \cup Runners

ASSUME VarsAssumption ==
  /\ VarsOf \in [Threads -> SUBSET Vars]
  /\ \A t, u \in Threads : t # u => VarsOf[t] \cap VarsOf[u] = {}
  /\ OnceVars \cap RepeatingVars = {} /\ Runners \cap (OnceVars \cup RepeatingVars) = {}
ASSUME NullAssumption == Null \notin BindStates \cup Vars
ASSUME BindStateAssumption == BindStates \cap Vars = {}
ASSUME BoundAssumption == MaxDepth \in Nat /\ MaxSteps \in Nat /\ Owner \in Threads

VARIABLES
  var,       \* the bind state that each variable holds
  bind,      \* the bind states: life, whether made by BindOnce, the functor,
             \* two bound callbacks, has_run_ of OnceCallbackHolder
  frames,    \* the call stack of each thread
  valid,     \* whether the bound WeakPtrs are valid
  runs,      \* how often the functor of each bind state has been called
  cancelled, \* the functors that IsCancelled() has said are cancelled
  scoped,    \* closures given to a ScopedClosureRunner that it has neither
             \* run, released nor replaced
  crash,
  steps      \* operations performed

vars == <<var, bind, frames, valid, runs, cancelled, scoped, crash, steps>>

Frame(at, bs, hold, a, b) == [at |-> at, bs |-> bs, hold |-> hold, a |-> a, b |-> b]

Init ==
  /\ var = [v \in Vars |-> Null]
  /\ bind = [o \in BindStates |-> [life |-> "none", once |-> FALSE, fun |-> "user",
                                   first |-> Null, second |-> Null, has_run |-> FALSE]]
  /\ frames = [t \in Threads |-> <<>>]
  /\ valid = TRUE
  /\ runs = [o \in BindStates |-> 0]
  /\ cancelled = {}
  /\ scoped = {}
  /\ crash = "none"
  /\ steps = 0

Top(t) == Last(frames[t])
At(t, where) == crash = "none" /\ frames[t] # <<>> /\ Top(t).at = where
\* The thread is outside of functional/, or in a functor.
InProgram(t) == crash = "none" /\ (frames[t] # <<>> => Top(t).at = "body")

Push(t, f) == frames' = [frames EXCEPT ![t] = Append(@, f)]
Become(t, f) == frames' = [frames EXCEPT ![t] = Append(Front(@), f)]
BecomeAndPush(t, f, g) == frames' = [frames EXCEPT ![t] = Append(Front(@), f) \o <<g>>]
Pop(t) == frames' = [frames EXCEPT ![t] = Front(@)]

Fail(why) == crash' = why /\ UNCHANGED <<var, bind, frames, valid, runs, cancelled, scoped>>

\* The places that hold a reference to o.
Places(o) ==
  {<<"var", v>> : v \in {v \in Vars : var[v] = o}}
  \cup {<<"first", p>> : p \in {p \in BindStates : bind[p].first = o}}
  \cup {<<"second", p>> : p \in {p \in BindStates : bind[p].second = o}}
  \cup UNION {{<<"frame", t, i, k>> : i \in {i \in DOMAIN frames[t] : frames[t][i][k] = o}}
              : t \in Threads, k \in {"hold", "a", "b"}}

-----------------------------------------------------------------------------
\* The scoped_refptr of a call: RepeatingCallback::Run copies it from the
\* callback, the consuming Run moves it.  The mutant keeps a raw pointer.
KeptMutant(o) == Null
Kept(o) == o
Call(o) == Frame("invoke", o, Kept(o), Null, Null)

\* scoped_refptr's assignment: the old value is in a temporary that is about to
\* let go of it.
Assign(t, from, v, o) ==
  /\ var' = [from EXCEPT ![v] = o]
  /\ IF from[v] = Null THEN UNCHANGED frames
     ELSE Push(t, Frame("release", Null, from[v], Null, Null))

\* What is left in s when it is passed on: OnceCallbacks can only be moved,
\* RepeatingCallbacks are copied here.
MovedFrom(o) == Null
Passed(s) == [var EXCEPT ![s] = IF s \in RepeatingVars THEN @ ELSE MovedFrom(@)]

Made(o, once, f, c1, c2) ==
  /\ bind[o].life = "none"
  /\ bind' = [bind EXCEPT ![o] = [life |-> "live", once |-> once, fun |-> f,
                                  first |-> c1, second |-> c2, has_run |-> FALSE]]

\* v = BindOnce(f) or BindRepeating(f): f a function, or a method of the object
\* with a WeakPtr to it.
BindFunction(t, v, o, f) ==
  /\ InProgram(t)
  /\ Made(o, v \in OnceVars, f, Null, Null)
  /\ Assign(t, var, v, o)
  /\ UNCHANGED <<valid, runs, cancelled, scoped, crash>>

\* v = BindOnce(std::move(s), arg): a callback as the functor of another.
BindCallback(t, v, o, s) ==
  /\ InProgram(t)
  /\ IF var[s] = Null THEN Fail("null functor")
     ELSE /\ Made(o, v \in OnceVars, "callback", var[s], Null)
          /\ Assign(t, Passed(s), v, o)
          /\ UNCHANGED <<valid, runs, cancelled, scoped, crash>>

\* v = std::move(s).Then(std::move(n))
Then(t, v, o, s, n) ==
  /\ InProgram(t)
  /\ IF var[n] = Null THEN Fail("null then")
     ELSE /\ Made(o, v \in OnceVars, "then", var[s], var[n])
          /\ Assign(t, [Passed(s) EXCEPT ![n] = Passed(n)[n]], v, o)
          /\ UNCHANGED <<valid, runs, cancelled, scoped, crash>>

\* std::tie(v, w) = SplitOnceCallback(std::move(s)): both are copies of one
\* repeating callback, which has the original in an OnceCallbackHolder.
SplitOnceCallback(t, v, w, o, s) ==
  /\ InProgram(t)
  /\ Passed(s)[v] = Null /\ Passed(s)[w] = Null
  /\ var[s] # Null
  /\ Made(o, FALSE, "split", var[s], Null)
  /\ var' = [Passed(s) EXCEPT ![v] = o, ![w] = o]
  /\ UNCHANGED <<frames, valid, runs, cancelled, scoped, crash>>

\* v = BindOnce(f, ScopedClosureRunner(std::move(s))), f taking it by value.
BindRunner(t, v, o, s) ==
  /\ InProgram(t)
  /\ var[s] # Null
  /\ Made(o, TRUE, "runner", var[s], Null)
  /\ scoped' = scoped \cup {var[s]}
  /\ Assign(t, Passed(s), v, o)
  /\ UNCHANGED <<valid, runs, cancelled, crash>>

-----------------------------------------------------------------------------
(* What the program does with its variables.                               *)

\* v = std::move(s), or v = s for a RepeatingCallback; a OnceCallback can be
\* made of a RepeatingCallback, not the other way.
Move(t, v, s) ==
  /\ InProgram(t)
  /\ v # s /\ (v \in RepeatingVars => s \in RepeatingVars)
  /\ Assign(t, Passed(s), v, var[s])
  /\ UNCHANGED <<bind, valid, runs, cancelled, scoped, crash>>

Reset(t, v) ==
  /\ InProgram(t)
  /\ var[v] # Null
  /\ Assign(t, var, v, Null)
  /\ UNCHANGED <<bind, valid, runs, cancelled, scoped, crash>>

\* A task with the callback is posted to the thread of w.
Post(t, v, w) ==
  /\ InProgram(t)
  /\ var[v] # Null /\ var[w] = Null
  /\ var' = [Passed(v) EXCEPT ![w] = var[v]]
  /\ UNCHANGED <<bind, frames, valid, runs, cancelled, scoped, crash>>

\* Run() &&, and Run() const& of a RepeatingCallback.
Run(t, v, consumes) ==
  /\ InProgram(t)
  /\ Len(frames[t]) < MaxDepth
  /\ consumes \/ v \in RepeatingVars
  /\ IF var[v] = Null THEN Fail("null run")
     ELSE /\ var' = IF consumes THEN [var EXCEPT ![v] = MovedFrom(@)] ELSE var
          /\ Push(t, Call(var[v]))
          /\ UNCHANGED <<bind, valid, runs, cancelled, scoped, crash>>

\* What a query of the cancellation traits ends at: a callback bound as the
\* functor of another one is asked in turn.
Queried[o \in BindStates] ==
  IF bind[o].fun = "callback" /\ bind[o].first # Null THEN Queried[bind[o].first] ELSE o

\* IsCancelled(), on the sequence of the object, and MaybeValid() on any.
IsCancelled(t, v) ==
  /\ InProgram(t)
  /\ IF var[v] = Null THEN Fail("null query")
     ELSE /\ cancelled' = cancelled \cup
               {o \in BindStates : o = Queried[var[v]] /\ bind[o].fun = "weak" /\ ~valid}
          /\ UNCHANGED <<var, bind, frames, valid, runs, scoped, crash>>

\* The object is deleted, or its factory invalidates the WeakPtrs.
InvalidateWeakPtrs(t) ==
  /\ t = Owner /\ InProgram(t) /\ valid
  /\ valid' = FALSE
  /\ UNCHANGED <<var, bind, frames, runs, cancelled, scoped, crash>>

-----------------------------------------------------------------------------
(* ScopedClosureRunner                                                     *)

\* Constructor, if r is empty, and ReplaceClosure.
ReplaceClosure(t, r, s) ==
  /\ InProgram(t)
  /\ scoped' = (scoped \ {var[r]}) \cup ({var[s]} \ {Null})
  /\ Assign(t, Passed(s), r, var[s])
  /\ UNCHANGED <<bind, valid, runs, cancelled, crash>>

\* v = r.Release()
Release(t, r, v) ==
  /\ InProgram(t)
  /\ scoped' = scoped \ {var[r]}
  /\ Assign(t, [var EXCEPT ![r] = MovedFrom(@)], v, var[r])
  /\ UNCHANGED <<bind, valid, runs, cancelled, crash>>

\* RunAndReset, and the destructor.
RunAndReset(t, r) ==
  /\ InProgram(t)
  /\ Len(frames[t]) < MaxDepth
  /\ var[r] # Null
  /\ var' = [var EXCEPT ![r] = MovedFrom(@)]
  /\ Push(t, Call(var[r]))
  /\ UNCHANGED <<bind, valid, runs, cancelled, scoped, crash>>

\* r = std::move(q): runs what r has, then takes the closure of q.
MoveRunner(t, r, q) ==
  /\ InProgram(t)
  /\ Len(frames[t]) < MaxDepth
  /\ r # q
  /\ var' = [var EXCEPT ![r] = MovedFrom(@)]
  /\ LET rest == Frame("take", Null, Null, r, q)
     IN frames' = [frames EXCEPT ![t] =
                     @ \o <<rest>> \o IF var[r] = Null THEN <<>> ELSE <<Call(var[r])>>]
  /\ UNCHANGED <<bind, valid, runs, cancelled, scoped, crash>>

\* The closure that r had has run and may have given r another one: that one is
\* replaced.
TakeClosure(t) ==
  /\ At(t, "take")
  /\ LET r == Top(t).a
         q == Top(t).b
     IN /\ scoped' = scoped \ {var[r]}
        /\ var' = [var EXCEPT ![r] = var[q], ![q] = MovedFrom(@)]
        /\ Become(t, Frame("release", Null, var[r], Null, Null))
  /\ UNCHANGED <<bind, valid, runs, cancelled, crash>>

-----------------------------------------------------------------------------
(* Invoker and InvokeHelper: what a call of a bind state does.             *)

\* The bound arguments as the functor gets them: Invoker::RunOnce moves them out
\* of the bind state, Invoker::Run does not.
Unbound(o) ==
  [bind EXCEPT ![o].first = IF bind[o].once THEN MovedFrom(@) ELSE @,
               ![o].second = IF bind[o].once THEN MovedFrom(@) ELSE @]

\* A method is not called once its receiver is gone.
IsReceiverMutant(o) == TRUE
IsReceiver(o) == bind[o].fun = "weak" => valid

\* A program that uses a WeakPtr on another sequence than its object's breaks the
\* rule of weak_ptr.h (52-61); nothing stops it, but it is followed no further.
InvokeFunction(t) ==
  /\ At(t, "invoke")
  /\ LET f == Top(t)
         o == f.bs
     IN /\ bind[o].fun \in {"user", "weak", "runner"}
        /\ IF bind[o].fun = "weak" /\ t # Owner THEN Fail("foreign sequence")
           ELSE IF ~IsReceiver(o)
           THEN /\ Become(t, [f EXCEPT !.at = "return"])
                /\ UNCHANGED <<var, bind, valid, runs, cancelled, scoped, crash>>
           ELSE /\ Become(t, [f EXCEPT !.at = "body", !.a = bind[o].first])
                /\ bind' = Unbound(o)
                /\ runs' = [runs EXCEPT ![o] = IF @ < 2 THEN @ + 1 ELSE @]
                /\ UNCHANGED <<var, valid, cancelled, scoped, crash>>

InvokeCallback(t) ==
  /\ At(t, "invoke") /\ bind[Top(t).bs].fun = "callback"
  /\ BecomeAndPush(t, [Top(t) EXCEPT !.at = "return"], Call(bind[Top(t).bs].first))
  /\ bind' = Unbound(Top(t).bs)
  /\ UNCHANGED <<var, valid, runs, cancelled, scoped, crash>>

InvokeThen(t) ==
  /\ At(t, "invoke") /\ bind[Top(t).bs].fun = "then"
  /\ Become(t, [Top(t) EXCEPT !.at = "c1", !.a = bind[Top(t).bs].first,
                              !.b = bind[Top(t).bs].second])
  /\ bind' = Unbound(Top(t).bs)
  /\ UNCHANGED <<var, valid, runs, cancelled, scoped, crash>>

\* ThenHelper's trampoline runs c1, then c2; it consumes both.
RunThen(t) ==
  \/ /\ At(t, "c1")
     /\ IF Top(t).a = Null THEN Fail("null run")
        ELSE /\ BecomeAndPush(t, [Top(t) EXCEPT !.at = "c2", !.a = Null], Call(Top(t).a))
             /\ UNCHANGED <<var, bind, valid, runs, cancelled, scoped, crash>>
  \/ /\ At(t, "c2")
     /\ BecomeAndPush(t, [Top(t) EXCEPT !.at = "return", !.b = Null], Call(Top(t).b))
     /\ UNCHANGED <<var, bind, valid, runs, cancelled, scoped, crash>>

\* OnceCallbackHolder::Run: the exchange, then the original is consumed.
FirstRun(o) == ~bind[o].has_run
InvokeSplit(t) ==
  /\ At(t, "invoke")
  /\ LET o == Top(t).bs
     IN /\ bind[o].fun = "split"
        /\ IF ~FirstRun(o) THEN Fail("split")
           ELSE /\ bind' = [bind EXCEPT ![o].has_run = TRUE]
                /\ Become(t, [Top(t) EXCEPT !.at = "winner"])
                /\ UNCHANGED <<var, valid, runs, cancelled, scoped, crash>>

RunOriginal(t) ==
  /\ At(t, "winner")
  /\ LET o == Top(t).bs
     IN IF bind[o].first = Null THEN Fail("null original")
        ELSE /\ BecomeAndPush(t, [Top(t) EXCEPT !.at = "return"], Call(bind[o].first))
             /\ bind' = [bind EXCEPT ![o].first = MovedFrom(@)]
             /\ UNCHANGED <<var, valid, runs, cancelled, scoped, crash>>

\* The functor returns to its Invoker.
Leave(t) ==
  /\ At(t, "body")
  /\ Become(t, [Top(t) EXCEPT !.at = "return"])
  /\ UNCHANGED <<var, bind, valid, runs, cancelled, scoped, crash>>

\* The functor's parameters are destroyed, a ScopedClosureRunner among them,
\* then the holder of the bind state.
Return(t) ==
  /\ At(t, "return")
  /\ IF Top(t).a # Null
     THEN BecomeAndPush(t, [Top(t) EXCEPT !.a = Null], Call(Top(t).a))
     ELSE Become(t, Frame("release", Null, Top(t).hold, Null, Null))
  /\ UNCHANGED <<var, bind, valid, runs, cancelled, scoped, crash>>

-----------------------------------------------------------------------------
\* ~scoped_refptr: whoever releases the last reference destroys the bind state.
IsLast(o) == \E p \in Places(o) : Places(o) = {p}
ReleaseRef(t) ==
  /\ At(t, "release")
  /\ LET o == Top(t).hold
     IN IF o # Null /\ IsLast(o)
        THEN /\ bind' = [bind EXCEPT ![o].life = "dying"]
             /\ Become(t, Frame("destroy", o, Null, Null, Null))
        ELSE Pop(t) /\ UNCHANGED bind
  /\ UNCHANGED <<var, valid, runs, cancelled, scoped, crash>>

\* BindState::Destroy: the members are destroyed, a callback by letting go of
\* its bind state, a ScopedClosureRunner by running its closure.
RunsWhenDestroyedMutant(o) == FALSE
RunsWhenDestroyed(o) == bind[o].fun = "runner"
Destroy(t) ==
  /\ At(t, "destroy")
  /\ LET o == Top(t).bs
     IN \/ /\ bind[o].first = Null /\ bind[o].second = Null
           /\ bind' = [bind EXCEPT ![o].life = "dead"]
           /\ Pop(t)
        \/ \E k \in {"first", "second"} :
             /\ bind[o][k] # Null
             /\ bind' = [bind EXCEPT ![o][k] = Null]
             /\ Push(t, IF RunsWhenDestroyed(o) THEN Call(bind[o][k])
                        ELSE Frame("release", Null, bind[o][k], Null, Null))
  /\ UNCHANGED <<var, valid, runs, cancelled, scoped, crash>>

-----------------------------------------------------------------------------
Program(t) ==
  LET Callbacks == VarsOf[t] \ Runners
      Onces == VarsOf[t] \cap OnceVars
      Scopes == VarsOf[t] \cap Runners
  IN \/ \E v \in Callbacks, o \in BindStates :
          \/ \E f \in {"user", "weak"} : BindFunction(t, v, o, f)
          \/ \E s \in Callbacks :
               /\ v \in RepeatingVars => s \in RepeatingVars
               /\ \/ BindCallback(t, v, o, s)
                  \/ \E n \in Callbacks \ {s} :
                       (v \in RepeatingVars => n \in RepeatingVars) /\ Then(t, v, o, s, n)
     \/ \E v \in Onces, o \in BindStates, s \in Callbacks :
          \/ BindRunner(t, v, o, s)
          \/ \E w \in Onces \ {v} : SplitOnceCallback(t, v, w, o, s)
     \/ \E v \in Callbacks :
          \/ \E s \in Callbacks : Move(t, v, s)
          \/ Reset(t, v)
          \/ \E c \in BOOLEAN : Run(t, v, c)
          \/ IsCancelled(t, v)
          \/ \E u \in Threads \ {t} : \E w \in VarsOf[u] \cap OnceVars : Post(t, v, w)
     \/ \E r \in Scopes :
          \/ \E s \in Callbacks : ReplaceClosure(t, r, s)
          \/ \E v \in Onces : Release(t, r, v)
          \/ RunAndReset(t, r)
          \/ \E q \in Scopes : MoveRunner(t, r, q)
     \/ InvalidateWeakPtrs(t)

Next ==
  \E t \in Threads :
    \/ steps < MaxSteps /\ Program(t) /\ steps' = steps + 1
    \/ /\ \/ InvokeFunction(t) \/ InvokeCallback(t) \/ InvokeThen(t) \/ RunThen(t)
          \/ InvokeSplit(t) \/ RunOriginal(t) \/ Leave(t) \/ Return(t)
          \/ TakeClosure(t) \/ ReleaseRef(t) \/ Destroy(t)
       /\ UNCHANGED steps

Spec == Init /\ [][Next]_vars

-----------------------------------------------------------------------------
OrNull(S) == S \cup {Null}
FrameType ==
  [at : {"invoke", "winner", "body", "return", "c1", "c2", "take", "release", "destroy"},
   bs : OrNull(BindStates), hold : OrNull(BindStates),
   a : OrNull(BindStates \cup Runners), b : OrNull(BindStates \cup Runners)]
BindType ==
  [life : {"none", "live", "dying", "dead"}, once : BOOLEAN,
   fun : {"user", "weak", "callback", "then", "split", "runner"},
   first : OrNull(BindStates), second : OrNull(BindStates), has_run : BOOLEAN]
TypeOK ==
  /\ var \in [Vars -> OrNull(BindStates)]
  /\ bind \in [BindStates -> BindType]
  /\ frames \in [Threads -> Seq(FrameType)]
  /\ valid \in BOOLEAN
  /\ runs \in [BindStates -> 0..2]
  /\ cancelled \subseteq BindStates /\ scoped \subseteq BindStates
  /\ crash \in {"none", "null functor", "null then", "null run", "null query",
                "foreign sequence", "split", "null original"}
  /\ steps \in Nat

\* A functor bound with BindOnce runs at most once, whichever ways its callback
\* was moved, nested, split, scoped or posted.
RunsOnce == \A o \in BindStates : bind[o].once => runs[o] <= 1

\* While the functor of a bind state runs, its bound state exists, though the
\* functor may reset or assign the very callback it was run from.
BoundOutlivesRun ==
  \A t \in Threads : \A i \in DOMAIN frames[t] :
    frames[t][i].at \in {"invoke", "body", "c1", "c2", "winner", "return"}
      => bind[frames[t][i].bs].life = "live"

\* A bind state lives exactly as long as something refers to it: none is
\* destroyed under a callback, none is left behind.
LiveIffHeld == \A o \in BindStates : (bind[o].life = "live") = (Places(o) # {})

\* Once a query has said that a callback is cancelled, its functor is not
\* called again.
CancelledStaysCancelled == [][\A o \in cancelled : runs'[o] = runs[o]]_vars

\* A closure given to a ScopedClosureRunner, and not taken back, has run by the
\* time it is destroyed, no matter how the scope was left.
ScopedClosuresRun ==
  \A o \in scoped : bind[o].fun = "user" /\ bind[o].life = "dead" => runs[o] >= 1

\* The half of a split callback that wins finds the original still there
\* (the DCHECK of OnceCallbackHolder::Run).
WinnerHasOriginal == crash # "null original"

\* What runs is what was promised to run: no once callback twice, the half of a
\* split callback that wins, and every closure of a runner.
RunsAsPromised == RunsOnce /\ WinnerHasOriginal /\ ScopedClosuresRun

\* A bind state is there as long as anybody holds it or runs it, and no longer.
BoundWhileHeld == BoundOutlivesRun /\ LiveIffHeld
=============================================================================
