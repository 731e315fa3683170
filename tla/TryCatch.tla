------------------------------ MODULE TryCatch ------------------------------
(***************************************************************************)
(* try / catch / finally / throw on one stack: the code the AOT backend    *)
(* emits for the statements (src/src/aot/llvm_backend.cpp, AST_TRY_CATCH,  *)
(* AST_THROW, AST_RETURN, AST_BREAK) against the handler stack it runs on  *)
(* (src/src/vm/runtime_bindings.cpp, aot_try_push ... aot_throw).          *)
(*                                                                         *)
(* The control state is `ehChain`: the calls, loops and try statements the *)
(* program is inside of, outermost first, through all active functions.    *)
(* The runtime knows nothing of it: it has only `ehHandlers`, the jmp_bufs *)
(* pushed and not popped.  The program is arbitrary.                       *)
(***************************************************************************)
EXTENDS Integers, Sequences

CONSTANTS
    EhMax,      \* EH_STACK_MAX
    MaxEntries, \* bound: the entries a run creates
    EarlyExit   \* may `return`, `break` or `continue` leave a try block?

ASSUME TryAssumption ==
    /\ EhMax \in Nat
    /\ MaxEntries \in Nat
    /\ EarlyExit \in BOOLEAN

VARIABLES
    ehChain,    \* what the program is inside of, outermost first
    ehHandlers, \* eh_cur->stack[0 .. depth): the entries whose setjmp it holds
    ehNext,     \* the name of the next entry
    ehPc        \* "run", "uncaught" (exit 1), "overflow" (setjmp on a null
                \* buffer) or "stray" (longjmp to a try that is not active)

ehVars == <<ehChain, ehHandlers, ehNext, ehPc>>

Kinds == {"call", "loop", "try", "catch", "finally"}
Entry == [id : Nat, kind : Kinds, fin : BOOLEAN]

TryTypeOK ==
    /\ ehChain \in Seq(Entry)
    /\ ehHandlers \in Seq(Nat) /\ Len(ehHandlers) <= EhMax
    /\ ehNext \in Nat
    /\ ehPc \in {"run", "uncaught", "overflow", "stray"}

TryInit ==
    /\ ehChain = <<>>
    /\ ehHandlers = <<>>
    /\ ehNext = 0
    /\ ehPc = "run"

-----------------------------------------------------------------------------

Running == ehPc = "run"
Inside(k) == ehChain # <<>> /\ ehChain[Len(ehChain)].kind = k
Upto(n) == SubSeq(ehChain, 1, n)

\* The try blocks the program is in the body of.
Active == {i \in DOMAIN ehChain : ehChain[i].kind = "try"}

\* Entries in the positions S are all of the kinds K.
Only(S, K) == \A i \in S : ehChain[i].kind \in K

\* What may stand between a jump and its target: with early exits anything in
\* the same function; without them no try block.
Skippable == {"loop", "catch", "finally"} \cup IF EarlyExit THEN {"try"} ELSE {}

Enter(k, f) ==
    /\ ehNext < MaxEntries
    /\ ehNext' = ehNext + 1
    /\ ehChain' = Append(ehChain, [id |-> ehNext, kind |-> k, fin |-> f])

Call ==
    /\ Running
    /\ Enter("call", FALSE)
    /\ UNCHANGED <<ehHandlers, ehPc>>

EnterLoop ==
    /\ Running
    /\ Enter("loop", FALSE)
    /\ UNCHANGED <<ehHandlers, ehPc>>

\* Mutant: the limit is tested one too late.
EnterTry_OffByOne ==
    /\ Running
    /\ \E f \in BOOLEAN : Enter("try", f)
    /\ IF Len(ehHandlers) > EhMax
       THEN ehPc' = "overflow" /\ UNCHANGED ehHandlers
       ELSE ehHandlers' = Append(ehHandlers, ehNext) /\ UNCHANGED ehPc

\* aot_try_push, then setjmp on what it returned: null when the stack is full.
EnterTry ==
    /\ Running
    /\ \E f \in BOOLEAN : Enter("try", f)
    /\ IF Len(ehHandlers) >= EhMax
       THEN ehPc' = "overflow" /\ UNCHANGED ehHandlers
       ELSE ehHandlers' = Append(ehHandlers, ehNext) /\ UNCHANGED ehPc

\* The program leaves the innermost statement at its end; a try or a catch
\* falls through to its finally block.
FallThrough ==
    LET e == ehChain[Len(ehChain)] IN
    ehChain' = IF e.fin
             THEN Append(Upto(Len(ehChain) - 1),
                         [id |-> e.id, kind |-> "finally", fin |-> FALSE])
             ELSE Upto(Len(ehChain) - 1)

\* Mutant: aot_try_pop is not emitted at the end of the try block.
EndTry_NoPop ==
    /\ Running /\ Inside("try")
    /\ FallThrough
    /\ UNCHANGED <<ehHandlers, ehNext, ehPc>>

\* End of the try block: aot_try_pop, which does nothing on an empty stack.
EndTry ==
    /\ Running /\ Inside("try")
    /\ FallThrough
    /\ ehHandlers' = IF ehHandlers = <<>>
                     THEN <<>> ELSE SubSeq(ehHandlers, 1, Len(ehHandlers) - 1)
    /\ UNCHANGED <<ehNext, ehPc>>

EndCatch ==
    /\ Running /\ (Inside("catch") \/ Inside("finally"))
    /\ FallThrough
    /\ UNCHANGED <<ehHandlers, ehNext, ehPc>>

EndLoop ==
    /\ Running /\ Inside("loop")
    /\ ehChain' = Upto(Len(ehChain) - 1)
    /\ UNCHANGED <<ehHandlers, ehNext, ehPc>>

\* AST_RETURN: ret, with nothing done to the handlers on the way.
TryReturn ==
    /\ Running
    /\ \E n \in DOMAIN ehChain :
          /\ ehChain[n].kind = "call"
          /\ Only((n + 1)..Len(ehChain), Skippable)
          /\ ehChain' = Upto(n - 1)
    /\ UNCHANGED <<ehHandlers, ehNext, ehPc>>

\* AST_BREAK and AST_CONTINUE: a branch to a block of the innermost loop of
\* the function, with nothing done to the handlers on the way.
LoopJump ==
    /\ Running
    /\ \E n \in DOMAIN ehChain, stay \in {0, 1} :
          /\ ehChain[n].kind = "loop"
          /\ Only((n + 1)..Len(ehChain), Skippable \ {"loop"})
          /\ ehChain' = Upto(n - 1 + stay)
    /\ UNCHANGED <<ehHandlers, ehNext, ehPc>>

\* The try statement at n, with control at its catch block.
Caught(n) == [id |-> ehChain[n].id, kind |-> "catch", fin |-> ehChain[n].fin]

\* Mutant: longjmp to the handler below the top one.
Throw_SkipsOne ==
    /\ Running
    /\ IF Len(ehHandlers) < 2
       THEN ehPc' = "uncaught" /\ UNCHANGED <<ehChain, ehHandlers>>
       ELSE \E n \in DOMAIN ehChain :
               /\ ehChain[n].id = ehHandlers[Len(ehHandlers) - 1]
               /\ ehChain' = Append(Upto(n - 1), Caught(n))
               /\ ehHandlers' = SubSeq(ehHandlers, 1, Len(ehHandlers) - 2)
               /\ UNCHANGED ehPc
    /\ UNCHANGED ehNext

\* aot_throw: pop the top handler and longjmp to it.  If its try is no longer
\* active, its frame is gone or runs something else.
Throw ==
    /\ Running
    /\ IF ehHandlers = <<>>
       THEN ehPc' = "uncaught" /\ UNCHANGED <<ehChain, ehHandlers>>
       ELSE /\ ehHandlers' = SubSeq(ehHandlers, 1, Len(ehHandlers) - 1)
            /\ IF \E n \in Active : ehChain[n].id = ehHandlers[Len(ehHandlers)]
               THEN /\ UNCHANGED ehPc
                    /\ \E n \in Active :
                          /\ ehChain[n].id = ehHandlers[Len(ehHandlers)]
                          /\ ehChain' = Append(Upto(n - 1), Caught(n))
               ELSE ehPc' = "stray" /\ UNCHANGED ehChain
    /\ UNCHANGED ehNext

\* After anything but "run" there is nothing more to model.
Over == ~Running /\ UNCHANGED ehVars

TryNext ==
    \/ Call \/ EnterLoop \/ EnterTry
    \/ EndTry \/ EndCatch \/ EndLoop
    \/ TryReturn \/ LoopJump
    \/ Throw
    \/ Over

TrySpec == TryInit /\ [][TryNext]_ehVars

-----------------------------------------------------------------------------
(* Correctness. *)

\* The runtime's handler stack is exactly the active try blocks, innermost on
\* top: no handler outlives its try block and none is missing.
HandlersAreActiveTries ==
    Running =>
        /\ \A i \in DOMAIN ehHandlers : \E n \in Active : ehChain[n].id = ehHandlers[i]
        /\ \A n \in Active : \E i \in DOMAIN ehHandlers : ehChain[n].id = ehHandlers[i]
        /\ \A i, k \in DOMAIN ehHandlers : i < k => ehHandlers[i] < ehHandlers[k]

\* STATUS.md: "throw" jumps to the nearest catch.  A throw is caught by the
\* innermost active try of all the functions being called, and ends the
\* program only when there is none.
ThrowToNearest ==
    [][ /\ ehPc' # "stray"
        /\ ehPc = "run" /\ ehPc' = "uncaught" => Active = {}
        /\ \A n \in Active :
              n \in DOMAIN ehChain' /\ ehChain'[n].id = ehChain[n].id
              /\ ehChain'[n].kind = "catch" => \A k \in Active : k <= n ]_ehVars

\* STATUS.md: `finally` runs on both paths.  A try statement with a finally
\* block is left only through that block as long as the program goes on.
FinallyAlwaysRuns ==
    [][ ehPc' = "run" =>
          \A n \in DOMAIN ehChain : ehChain[n].fin =>
              n \in DOMAIN ehChain' /\ ehChain'[n].id = ehChain[n].id ]_ehVars
=============================================================================
