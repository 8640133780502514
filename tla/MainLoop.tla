------------------------------ MODULE MainLoop ------------------------------
(***************************************************************************)
(* kernel::run() on the hardware ports: the loop that looks at the ready   *)
(* lists with interrupts masked, and then either calls run_one() or waits  *)
(* for an interrupt.  WFI returns for a requested interrupt although it is *)
(* masked; the handler runs after irq_enable().  The tasks and interrupts  *)
(* of this main loop use a semaphore, so that a wakeup slept through would *)
(* be a permit nobody takes.                                               *)
(***************************************************************************)
EXTENDS Semaphore

\* run() belongs to the ports with real interrupts; on the host idle() with
\* nothing to do is the end of the program.
ASSUME MainLoopAssumption == ASYNC_ISR

VARIABLES
    main,        \* where the code outside all tasks is
    requested    \* an interrupt that has come while they were masked

mainVars == <<semVars, main, requested>>

\* "boot": before run(); "top": before irq_disable(); "check": at the test of
\* the ready lists; "idle": before WFI or in it; "run": before run_one().
\* While run_one() is active the loop is at the top already.
Places == {"boot", "top", "check", "idle", "run"}

\* Mutant: interrupts are enabled before WFI
maskedUntilIdle == main = "check"

\* PRIMASK, or the cleared MIE, between irq_disable() and irq_enable()
masked == main \in {"check", "idle"}

\* Code outside all tasks, with no handler and no PendSV in the way
Outside == stack = <<>> /\ Proceeds

MainInit ==
    /\ SemInit
    /\ main = "boot"
    /\ requested = FALSE

-----------------------------------------------------------------------------
(* The loop *)

\* run() is called
Boot ==
    /\ Outside /\ main = "boot"
    /\ main' = "top"
    /\ UNCHANGED <<semVars, requested>>

\* The interrupt that came while they were masked is handled first: nothing
\* else happens between irq_enable() and its handler.
IrqDisable ==
    /\ Outside /\ main = "top" /\ ~requested
    /\ main' = "check"
    /\ UNCHANGED <<semVars, requested>>

\* any_ready, and irq_enable() on the way to run_one()
CheckReady ==
    /\ Outside /\ main = "check"
    /\ main' = IF \E p \in Priority : ready_lists[p] # <<>> THEN "run" ELSE "idle"
    /\ UNCHANGED <<semVars, requested>>

\* idle() and irq_enable().  WFI returns when an interrupt is requested; it
\* may return without one (a core that implements it as NOP).
Idle ==
    /\ Outside /\ main = "idle"
    /\ main' = "top"
    /\ UNCHANGED <<semVars, requested>>

-----------------------------------------------------------------------------
(* Interrupts *)

\* An interrupt comes and stays pending.
Request ==
    /\ masked /\ ~requested
    /\ requested' = TRUE
    /\ UNCHANGED <<semVars, main>>

TimerHandler == TickIsr /\ UNCHANGED <<count, awaiting, credit>>

Handler(isr) ==
    /\ ~masked
    /\ isr
    /\ requested' = FALSE
    /\ UNCHANGED main

\* The loop of tick_isr, in the handler
HandlerGoesOn ==
    /\ TickWake
    /\ UNCHANGED <<count, awaiting, credit, main, requested>>

-----------------------------------------------------------------------------
(* Tasks *)

\* What tasks and the code before run() do without leaving the processor
Works ==
    \/ TryAcquire
    \/ \E n \in Timeouts : Acquire(n) /\ stack' = stack
    \/ /\ \E t \in Tasks, p \in 0 .. NUM_PRIORITIES : Start(t, p)
       /\ UNCHANGED <<count, awaiting, credit>>

\* What changes the stack: a cooperative task reaches a co_await that suspends
\* it, or its end; the handler of PendSV and run_one() go on.
Switches ==
    \/ SemDispatch
    \/ \E n \in Timeouts : Acquire(n) /\ stack' # stack
    \/ /\ \/ PendSV \/ ScanEmpty \/ Return \/ Yield \/ Finish
          \/ \E n \in 0 .. MaxTimeout : Sleep(n)
       /\ UNCHANGED <<count, awaiting, credit>>

\* run_one() called by run()
RunTask ==
    /\ main = "run" /\ stack = <<>> /\ ~requested
    /\ SemDispatch
    /\ main' = "top"
    /\ UNCHANGED requested

TaskSwitches == stack # <<>> /\ ~requested /\ Switches /\ UNCHANGED <<main, requested>>

TaskWorks ==
    /\ stack # <<>> \/ main = "boot"
    /\ ~requested
    /\ Works
    /\ UNCHANGED <<main, requested>>

MainNext ==
    \/ Boot \/ IrqDisable \/ CheckReady \/ Idle
    \/ Request \/ Handler(Release) \/ Handler(TimerHandler) \/ HandlerGoesOn
    \/ RunTask \/ TaskSwitches \/ TaskWorks

MainSpec == MainInit /\ [][MainNext]_mainVars

\* Interrupts leave the processor some time, the timer keeps running, and
\* clients keep releasing permits.  Strong fairness, because every interrupt
\* takes the processor away for a while and every masked section keeps the
\* interrupts away.  A sleeping processor is owed nothing: it goes on only
\* when an interrupt is requested.
MainFairSpec ==
    /\ MainSpec
    /\ SF_mainVars(\/ Boot \/ IrqDisable \/ CheckReady \/ (Idle /\ requested)
                   \/ RunTask \/ TaskSwitches)
    /\ WF_mainVars(Request)
    /\ SF_mainVars(Handler(Release))
    /\ SF_mainVars(Handler(TimerHandler))
    /\ WF_mainVars(HandlerGoesOn)

-----------------------------------------------------------------------------
(* Properties *)

\* The processor goes to sleep, and sleeps, only while no task is ready: a
\* wakeup between the test of the ready lists and WFI stays pending, ends WFI
\* and is handled before the next test.
NoWakeupSleptThrough ==
    main = "idle" => \A p \in Priority : ready_lists[p] = <<>>

\* The inductive invariant: the masked section is code outside all tasks, and
\* the task that the test has seen is still there when run_one() looks.
LoopAgree ==
    /\ main \in Places
    /\ requested \in BOOLEAN
    /\ main # "top" => stack = <<>>
    /\ masked => ~ticking
    /\ main = "run" => \E p \in Priority : ready_lists[p] # <<>>

MainInv == LoopAgree /\ NoWakeupSleptThrough
=============================================================================
