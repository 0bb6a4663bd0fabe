---------------------------- MODULE Diagnostics ----------------------------
(***************************************************************************)
(* TfDiagnosticMgr with TfErrorMark, TfErrorTransport, TfDiagnosticTrap    *)
(* and TfDiagnosticTransport: where a diagnostic is from the time it is    *)
(* issued until a delegate has it or a user clears it, and what a crash    *)
(* log would say of it in between.                                         *)
(*                                                                         *)
(* Error lists, marks, traps and log texts are local to a thread, so a     *)
(* call on them is one action.  _nextSerial, the delegates and the         *)
(* transports are shared; a report holds _delegatesMutex (a TfSpinRWMutex) *)
(* for reading while it calls the delegates one after another.  Warnings   *)
(* and statuses take the same way and are one kind here.                   *)
(***************************************************************************)
EXTENDS Integers, FiniteSets, SequencesExt, Lists

CONSTANTS
  Threads,
  Delegates,
  MaxPosts,      \* bounds the diagnostics ever issued
  MaxSerial,     \* no error leaves a list for another once _nextSerial is this
  MaxScopes,     \* bounds the marks and traps there are at a time
  MaxDelegates   \* bounds the list of delegates

ASSUME BoundsAssumption ==
  {MaxPosts, MaxSerial, MaxScopes, MaxDelegates} \subseteq Nat

VARIABLES
  nextSerial,
  errors,        \* errors[t]: _errorList, of [id, serial]
  marks,         \* marks[t]: the TfErrorMarks, of [mark, before]; before is not
                 \*   in the code: how many errors SetMark found that are still there
  pendingLog,    \* pendingLog[t]: _pendingErrorsLogText, as ids
  traps,         \* traps[t]: trapStack, of [container, logStart]
  trappedLog,    \* trappedLog[t]: _trappedDiagnosticsLogText, as ids
  errorTransport,      \* a TfErrorTransport, [list, pin]
  diagnosticTransport, \* a TfDiagnosticTransport, [list, pin]
  delegates,     \* _delegates
  work,          \* work[t]: the reporting call t is in
  issued,        \* the number of diagnostics issued so far; their ids are 1..issued
  fate           \* fate[id]: what became of it, of which the code keeps no trace

threadVars == <<errors, marks, pendingLog, traps, trappedLog>>
transportVars == <<errorTransport, diagnosticTransport>>
ghosts == <<issued, fate>>
vars == <<nextSerial, threadVars, transportVars, delegates, work, ghosts>>

Ids == 1..MaxPosts

\* The threads are alike, and TLC may exchange them.
ThreadSymmetry == Permutations(Threads)

Kinds == {"Error", "Warning"}
Diagnostic(id, kind) == [id |-> id, kind |-> kind]
IdsOf(list) == [i \in DOMAIN list |-> list[i].id]
AsDiagnostics(list) == [i \in DOMAIN list |-> Diagnostic(list[i].id, "Error")]

Unset == -1     \* size_t(-1): a trap's _logStart before its first diagnostic

Empty == [list |-> <<>>, pin |-> <<>>]

\* A call that reports: what it has yet to report, whether it holds the lock,
\* the delegates it has yet to call with the first diagnostic of todo, and, for a
\* destructor of a mark, how many errors precede the mark.
Idle == [of |-> "None", todo |-> <<>>, locked |-> FALSE, rest |-> <<>>, before |-> 0]

Reporting(of, todo, before) ==
  [Idle EXCEPT !.of = of, !.todo = todo, !.before = before]

Init ==
  /\ nextSerial = 0
  /\ errors = [t \in Threads |-> <<>>]
  /\ marks = [t \in Threads |-> <<>>]
  /\ pendingLog = [t \in Threads |-> <<>>]
  /\ traps = [t \in Threads |-> <<>>]
  /\ trappedLog = [t \in Threads |-> <<>>]
  /\ errorTransport = Empty
  /\ diagnosticTransport = Empty
  /\ delegates = <<>>
  /\ work = [t \in Threads |-> Idle]
  /\ issued = 0
  /\ fate = [id \in Ids |-> "Open"]

IsIdle(t) == work[t] = Idle

Uses(t, source) == work[t].of = source

\* No thread posts the transport.
Free(transport) == \A t \in Threads : ~Uses(t, transport)

MayNest == MapThenSumSet(LAMBDA t : Len(marks[t]) + Len(traps[t]), Threads) < MaxScopes

Becomes(ids, what) == fate' = [id \in Ids |-> IF id \in ids THEN what ELSE fate[id]]

-----------------------------------------------------------------------------
(* The error list of a thread. *)

HasActiveErrorMark(t) == marks[t] # <<>>

\* _GetErrorMarkBegin: how many errors are in front of the iterator it returns;
\* it goes backward from the end to the first error below the mark.
Preceding(list, mark) ==
  IF mark >= nextSerial THEN Len(list)
  ELSE SelectLastInSeq(list, LAMBDA e : e.serial < mark)

IsClean_SkipsFirst(t, mark) ==
  \/ mark >= nextSerial
  \/ errors[t] = <<>>
  \/ Last(errors[t]).serial <= mark

IsClean(t, mark) ==
  \/ mark >= nextSerial
  \/ errors[t] = <<>>
  \/ Last(errors[t]).serial < mark

ErrorsFrom(t, before) == SubSeq(errors[t], before + 1, Len(errors[t]))

\* The errors are given consecutive serial numbers and appended.
Reserialized(list) ==
  [i \in DOMAIN list |-> [id |-> list[i].id, serial |-> nextSerial + i - 1]]

\* _PinErrorLogText and _PinDiagnosticsLogText.
PinLogText_AfterMove(list) == <<>>

PinLogText(list) == IdsOf(list)

AddErrors(t, list) ==
  /\ nextSerial' = nextSerial + Len(list)
  /\ errors' = [errors EXCEPT ![t] = @ \o Reserialized(list)]
  /\ pendingLog' = [pendingLog EXCEPT ![t] = @ \o IdsOf(list)]

RebuiltPending(log, list, startSerial) ==
  LET validLogEnd == Preceding(list, startSerial) IN
  SubSeq(log, 1, Min({validLogEnd, Len(log)}))
    \o IdsOf(SubSeq(list, validLogEnd + 1, Len(list)))

\* The marks of a list that keeps its first n errors.
CutTo(n, ms) == [i \in DOMAIN ms |-> [ms[i] EXCEPT !.before = Min({@, n})]]

\* The errors behind the first `before` leave the list: EraseRange, or the
\* splice of a TfErrorTransport.
RemoveErrors(t, before, startSerial) ==
  LET kept == SubSeq(errors[t], 1, before) IN
  /\ errors' = [errors EXCEPT ![t] = kept]
  /\ pendingLog' = [pendingLog EXCEPT ![t] = RebuiltPending(@, kept, startSerial)]
  /\ marks' = [marks EXCEPT ![t] = CutTo(before, @)]

EraseFrom(t, before) == RemoveErrors(t, before, errors[t][before + 1].serial)

-----------------------------------------------------------------------------
(* The traps of a thread. *)

\* What the first n traps of a stack contain, one after another.
ContentsOf(stack, n) ==
  LET upTo[i \in 0 .. Len(stack)] ==
        IF i = 0 THEN <<>> ELSE upTo[i - 1] \o stack[i].container
  IN  upTo[n]

SizeBelow(stack, i) == Len(ContentsOf(stack, i - 1))

\* One round of the loop of _RebuildTrappedDiagnosticsLogText.
AppendTrap(acc, trap) ==
  LET end == acc.pos + Len(trap.container)
      skip == Max({0, Len(acc.log) - acc.pos}) IN
  [pos |-> end,
   log |-> IF end <= Len(acc.log) THEN acc.log
           ELSE acc.log \o IdsOf(SubSeq(trap.container, skip + 1, Len(trap.container)))]

RebuiltTrapped(log, stack, validLogEnd) ==
  LET kept == IF validLogEnd = Unset THEN log
              ELSE SubSeq(log, 1, Min({validLogEnd, Len(log)}))
      scanned[i \in 0 .. Len(stack)] ==
        IF i = 0 THEN [pos |-> 0, log |-> kept] ELSE AppendTrap(scanned[i - 1], stack[i])
  IN  scanned[Len(stack)].log

Resynced(stack) ==
  [i \in DOMAIN stack |-> [stack[i] EXCEPT !.logStart = SizeBelow(stack, i)]]

RebuildTraps(t, stack, validLogEnd) ==
  /\ trappedLog' = [trappedLog EXCEPT ![t] = RebuiltTrapped(@, stack, validLogEnd)]
  /\ traps' = [traps EXCEPT ![t] = Resynced(stack)]

\* The container of trap i is replaced, and _OnContentsChanged rebuilds.
ChangeTrap(t, i, container) ==
  RebuildTraps(t, [traps[t] EXCEPT ![i].container = container], traps[t][i].logStart)

\* _AppendTrappedDiagnosticsLogText after the active trap's container.
AppendToTrap(t, d) ==
  LET top == Len(traps[t]) IN
  /\ traps' = [traps EXCEPT ![t][top] =
       [container |-> Append(@.container, d),
        logStart |-> IF @.logStart = Unset THEN Len(trappedLog[t]) ELSE @.logStart]]
  /\ trappedLog' = [trappedLog EXCEPT ![t] = Append(@, d.id)]

-----------------------------------------------------------------------------
(* Issuing. *)

\* PostError and PostWarning: an error joins the list if a mark is active; a
\* warning, or an error without a mark, is reported.
Post(t, kind) ==
  LET d == Diagnostic(issued + 1, kind) IN
  /\ IsIdle(t)
  /\ issued < MaxPosts
  /\ issued' = issued + 1
  /\ \/ /\ kind = "Error" /\ HasActiveErrorMark(t)
        /\ AddErrors(t, <<d>>)
        /\ UNCHANGED work
     \/ /\ ~(kind = "Error" /\ HasActiveErrorMark(t))
        /\ work' = [work EXCEPT ![t] = Reporting("Post", <<d>>, 0)]
        /\ UNCHANGED <<nextSerial, errors, pendingLog>>
  /\ UNCHANGED <<marks, traps, trappedLog, transportVars, delegates, fate>>

\* A delegate posts while it is called: _reentrantGuard drops what would be
\* reported; an error still joins the list of a thread with a mark.
DelegatePosts(t, kind) ==
  LET d == Diagnostic(issued + 1, kind) IN
  /\ work[t].rest # <<>>
  /\ issued < MaxPosts
  /\ issued' = issued + 1
  /\ \/ /\ kind = "Error" /\ HasActiveErrorMark(t)
        /\ AddErrors(t, <<d>>)
        /\ UNCHANGED fate
     \/ /\ ~(kind = "Error" /\ HasActiveErrorMark(t))
        /\ Becomes({d.id}, "Dropped")
        /\ UNCHANGED <<nextSerial, errors, pendingLog>>
  /\ UNCHANGED <<marks, traps, trappedLog, transportVars, delegates, work>>

-----------------------------------------------------------------------------
(* Reporting: the loop over todo. *)

\* Tf_DiagnosticContainer::Post posts its errors anew; the other loops report.
Reposts(t) == work[t].of \in {"Dismiss", "DiagnosticTransport"}

Current(t) == Head(work[t].todo)

JoinsList(t) ==
  Reposts(t) /\ Current(t).kind = "Error" /\ HasActiveErrorMark(t)

NextDiagnostic(t) ==
  work' = [work EXCEPT ![t].todo = Tail(@), ![t].locked = FALSE, ![t].rest = <<>>]

Repost(t) ==
  /\ work[t].todo # <<>> /\ ~work[t].locked
  /\ JoinsList(t)
  /\ AddErrors(t, <<Current(t)>>)
  /\ NextDiagnostic(t)
  /\ UNCHANGED <<marks, traps, trappedLog, transportVars, delegates, ghosts>>

Trap(t) ==
  /\ work[t].todo # <<>> /\ ~work[t].locked
  /\ ~JoinsList(t) /\ traps[t] # <<>>
  /\ AppendToTrap(t, Current(t))
  /\ NextDiagnostic(t)
  /\ UNCHANGED <<nextSerial, errors, marks, pendingLog, transportVars, delegates,
                 ghosts>>

\* _ForEachDelegate takes the lock and looks at the list.
LockDelegates(t) ==
  /\ work[t].todo # <<>> /\ ~work[t].locked
  /\ ~JoinsList(t) /\ traps[t] = <<>>
  /\ work' = [work EXCEPT ![t].locked = TRUE, ![t].rest = delegates]
  /\ UNCHANGED <<nextSerial, threadVars, transportVars, delegates, ghosts>>

\* The first delegate of rest returns.
DelegateReturns(t) ==
  /\ work[t].rest # <<>>
  /\ work' = [work EXCEPT ![t].rest = Tail(@)]
  /\ UNCHANGED <<nextSerial, threadVars, transportVars, delegates, ghosts>>

\* Every delegate has it; where there is none, it is printed.
Reported(t) ==
  /\ work[t].locked /\ work[t].rest = <<>>
  /\ Becomes({Current(t).id}, "Reported")
  /\ NextDiagnostic(t)
  /\ UNCHANGED <<nextSerial, threadVars, transportVars, delegates, issued>>

\* TfDiagnosticTransport::Post clears the container and the pin after the loop.
PostedContainer_Kept == [diagnosticTransport EXCEPT !.pin = <<>>]

PostedContainer == Empty

\* What follows the loop.
Finish(t) ==
  /\ ~IsIdle(t) /\ work[t].todo = <<>>
  /\ work' = [work EXCEPT ![t] = Idle]
  /\ IF work[t].of = "Mark" THEN EraseFrom(t, work[t].before)
     ELSE UNCHANGED <<errors, marks, pendingLog>>
  /\ errorTransport' =
       IF work[t].of = "ErrorTransport" THEN [errorTransport EXCEPT !.pin = <<>>]
       ELSE errorTransport
  /\ diagnosticTransport' =
       IF work[t].of = "DiagnosticTransport" THEN PostedContainer ELSE diagnosticTransport
  /\ UNCHANGED <<nextSerial, traps, trappedLog, delegates, issued, fate>>

-----------------------------------------------------------------------------
(* Error marks. *)

CreateMark(t) ==
  /\ IsIdle(t) /\ MayNest
  /\ marks' = [marks EXCEPT ![t] =
       Append(@, [mark |-> nextSerial, before |-> Len(errors[t])])]
  /\ UNCHANGED <<nextSerial, errors, pendingLog, traps, trappedLog, transportVars,
                 delegates, work, ghosts>>

SetMark(t, i) ==
  /\ IsIdle(t)
  /\ marks' = [marks EXCEPT ![t][i] = [mark |-> nextSerial, before |-> Len(errors[t])]]
  /\ UNCHANGED <<nextSerial, errors, pendingLog, traps, trappedLog, transportVars,
                 delegates, work, ghosts>>

\* TfErrorMark::Clear: the errors count as handled.
ClearMark(t, i) ==
  LET before == Preceding(errors[t], marks[t][i].mark) IN
  /\ IsIdle(t)
  /\ before < Len(errors[t])
  /\ EraseFrom(t, before)
  /\ Becomes(Range(IdsOf(ErrorsFrom(t, before))), "Handled")
  /\ UNCHANGED <<nextSerial, traps, trappedLog, transportVars, delegates, work, issued>>

\* TfErrorMark::Transport.
TransportMark(t, i) ==
  LET before == Preceding(errors[t], marks[t][i].mark)
      taken == ErrorsFrom(t, before) IN
  /\ IsIdle(t)
  /\ Free("ErrorTransport") /\ errorTransport.pin = <<>>
  /\ taken # <<>> /\ nextSerial < MaxSerial
  /\ errorTransport' = [list |-> taken, pin |-> PinLogText(taken)]
  /\ RemoveErrors(t, before, marks[t][i].mark)
  /\ UNCHANGED <<nextSerial, traps, trappedLog, diagnosticTransport, delegates, work,
                 ghosts>>

\* ~TfErrorMark: the last one of the thread reports the errors behind it.
DestroyMark(t, i) ==
  LET m == marks[t][i].mark
      before == Preceding(errors[t], m) IN
  /\ IsIdle(t)
  /\ marks' = [marks EXCEPT ![t] = RemoveAt(@, i)]
  /\ IF Len(marks[t]) = 1 /\ ~IsClean(t, m)
     THEN /\ nextSerial < MaxSerial
          /\ work' = [work EXCEPT ![t] =
               Reporting("Mark", AsDiagnostics(ErrorsFrom(t, before)), before)]
     ELSE UNCHANGED work
  /\ UNCHANGED <<nextSerial, errors, pendingLog, traps, trappedLog, transportVars,
                 delegates, ghosts>>

-----------------------------------------------------------------------------
(* Traps.  Dismiss is for the innermost trap: _PopTrap verifies that it is. *)

PushTrap(t) ==
  /\ IsIdle(t) /\ MayNest
  /\ traps' = [traps EXCEPT ![t] = Append(@, [container |-> <<>>, logStart |-> Unset])]
  /\ UNCHANGED <<nextSerial, errors, marks, pendingLog, trappedLog, transportVars,
                 delegates, work, ghosts>>

\* EraseMatching, and ClearErrors, ClearWarnings and Clear that call it.
EraseMatching(t, i, kinds) ==
  LET container == traps[t][i].container
      matching == {d \in Range(container) : d.kind \in kinds} IN
  /\ IsIdle(t)
  /\ matching # {}
  /\ ChangeTrap(t, i, Only(container, Range(container) \ matching))
  /\ Becomes({d.id : d \in matching}, "Handled")
  /\ UNCHANGED <<nextSerial, errors, marks, pendingLog, transportVars, delegates,
                 work, issued>>

\* TfDiagnosticTrap::Transport.
TransportTrap(t, i) ==
  LET container == traps[t][i].container IN
  /\ IsIdle(t)
  /\ diagnosticTransport = Empty
  /\ container # <<>>
  /\ diagnosticTransport' = [list |-> container, pin |-> PinLogText(container)]
  /\ ChangeTrap(t, i, <<>>)
  /\ UNCHANGED <<nextSerial, errors, marks, pendingLog, errorTransport, delegates,
                 work, ghosts>>

\* Dismiss: _PopTrap, and the container is posted, to the next trap if any.
Dismiss(t) ==
  LET trap == Last(traps[t]) IN
  /\ IsIdle(t)
  /\ traps[t] # <<>>
  /\ IF trap.container = <<>>
     THEN traps' = [traps EXCEPT ![t] = Front(@)] /\ UNCHANGED <<trappedLog, work>>
     ELSE /\ RebuildTraps(t, Front(traps[t]), trap.logStart)
          /\ work' = [work EXCEPT ![t] = Reporting("Dismiss", trap.container, 0)]
  /\ UNCHANGED <<nextSerial, errors, marks, pendingLog, transportVars, delegates,
                 ghosts>>

-----------------------------------------------------------------------------
(* Transports, which any one thread at a time may use. *)

\* Errors that are posted once more count as issued once more.
Reissued(list) == [i \in DOMAIN list |-> [id |-> issued + i, serial |-> list[i].serial]]

\* TfErrorTransport::Post: _SpliceErrors moves the errors into the list of a
\* thread with a mark; without one it reports them, and they stay where they are
\* without the pin, to be posted again.
PostErrorTransport(t) ==
  LET again == errorTransport.pin = <<>>
      list == IF again THEN Reissued(errorTransport.list) ELSE errorTransport.list IN
  /\ IsIdle(t) /\ Free("ErrorTransport")
  /\ list # <<>>
  /\ issued' = IF again THEN issued + Len(list) ELSE issued
  /\ issued' <= MaxPosts
  /\ \/ /\ HasActiveErrorMark(t)
        /\ AddErrors(t, list)
        /\ errorTransport' = Empty
        /\ UNCHANGED work
     \/ /\ ~HasActiveErrorMark(t)
        /\ work' = [work EXCEPT ![t] =
             Reporting("ErrorTransport", AsDiagnostics(list), 0)]
        /\ UNCHANGED <<nextSerial, errors, pendingLog, errorTransport>>
  /\ UNCHANGED <<marks, traps, trappedLog, diagnosticTransport, delegates, fate>>

PostDiagnosticTransport(t) ==
  /\ IsIdle(t) /\ Free("DiagnosticTransport")
  /\ diagnosticTransport.list # <<>>
  /\ work' = [work EXCEPT ![t] =
       Reporting("DiagnosticTransport", diagnosticTransport.list, 0)]
  /\ UNCHANGED <<nextSerial, threadVars, transportVars, delegates, ghosts>>

\* A transport is destroyed: what it holds is not reported any more.
DropErrorTransport ==
  /\ Free("ErrorTransport") /\ errorTransport # Empty
  /\ errorTransport' = Empty
  /\ Becomes(Range(errorTransport.pin), "Handled")
  /\ UNCHANGED <<nextSerial, threadVars, diagnosticTransport, delegates, work, issued>>

DropDiagnosticTransport ==
  /\ Free("DiagnosticTransport") /\ diagnosticTransport # Empty
  /\ diagnosticTransport' = Empty
  /\ Becomes(Range(diagnosticTransport.pin), "Handled")
  /\ UNCHANGED <<nextSerial, threadVars, errorTransport, delegates, work, issued>>

-----------------------------------------------------------------------------
(* Delegates: a writer waits until no thread is calling them. *)

NobodyCalls_Unlocked == TRUE

NobodyCalls == \A t \in Threads : ~work[t].locked

AddDelegate(t, d) ==
  /\ IsIdle(t) /\ NobodyCalls
  /\ Len(delegates) < MaxDelegates
  /\ delegates' = Append(delegates, d)
  /\ UNCHANGED <<nextSerial, threadVars, transportVars, work, ghosts>>

\* erase(remove(list, d)): the entries that stay, in their order.
Without(list, d) == Only(list, Range(list) \ {d})

\* All entries equal to d go; d may be destroyed when the call has returned.
RemoveDelegate(t, d) ==
  /\ IsIdle(t) /\ NobodyCalls
  /\ d \in Range(delegates)
  /\ delegates' = Without(delegates, d)
  /\ UNCHANGED <<nextSerial, threadVars, transportVars, work, ghosts>>

-----------------------------------------------------------------------------

MarkCall(t) ==
  \/ CreateMark(t)
  \/ \E i \in DOMAIN marks[t] :
       SetMark(t, i) \/ ClearMark(t, i) \/ TransportMark(t, i) \/ DestroyMark(t, i)

TrapCall(t) ==
  \/ PushTrap(t) \/ Dismiss(t)
  \/ \E i \in DOMAIN traps[t] :
       \/ TransportTrap(t, i)
       \/ \E kinds \in SUBSET Kinds : EraseMatching(t, i, kinds)

ReportStep(t) ==
  \/ Repost(t) \/ Trap(t) \/ LockDelegates(t) \/ DelegateReturns(t)
  \/ Reported(t) \/ Finish(t)

Next ==
  \/ \E t \in Threads :
       \/ \E kind \in Kinds : Post(t, kind) \/ DelegatePosts(t, kind)
       \/ ReportStep(t) \/ MarkCall(t) \/ TrapCall(t)
       \/ PostErrorTransport(t) \/ PostDiagnosticTransport(t)
       \/ \E d \in Delegates : AddDelegate(t, d) \/ RemoveDelegate(t, d)
  \/ DropErrorTransport \/ DropDiagnosticTransport

Spec == Init /\ [][Next]_vars

-----------------------------------------------------------------------------
(* Properties. *)

TypeOK ==
  /\ nextSerial \in Nat
  /\ \A t \in Threads :
       /\ errors[t] \in Seq([id : Ids, serial : 0..nextSerial])
       /\ marks[t] \in Seq([mark : 0..nextSerial, before : 0..Len(errors[t])])
       /\ traps[t] \in Seq([container : Seq([id : Ids, kind : Kinds]), logStart : Nat \cup {Unset}])
       /\ pendingLog[t] \in Seq(Ids) /\ trappedLog[t] \in Seq(Ids)
       /\ work[t].todo \in Seq([id : Ids, kind : Kinds]) /\ work[t].rest \in Seq(Delegates)
       /\ work[t].rest # <<>> => work[t].locked
  /\ delegates \in Seq(Delegates)
  /\ issued \in 0..MaxPosts
  /\ fate \in [Ids -> {"Open", "Reported", "Handled", "Dropped"}]

\* No two errors pending anywhere have the same serial number, and each thread's
\* are in the order of their numbers.
SerialsAreUnique ==
  \A t, u \in Threads : \A i \in DOMAIN errors[t] : \A j \in DOMAIN errors[u] :
    /\ errors[t][i].serial < nextSerial
    /\ t = u /\ i < j => errors[t][i].serial < errors[u][j].serial
    /\ t # u => errors[t][i].serial # errors[u][j].serial

\* The backward search of _GetErrorMarkBegin and IsClean's look at the last error
\* alone are right: through the errors of other threads, transports into and out
\* of the list and marks set, cleared and destroyed in any order, what a mark
\* finds is what has joined its thread's list since SetMark, no more and no less.
MarksFindTheirErrors ==
  \A t \in Threads : \A i \in DOMAIN marks[t] :
    LET m == marks[t][i] IN
    /\ Preceding(errors[t], m.mark) = m.before
    /\ IsClean(t, m.mark) <=> m.before = Len(errors[t])

\* The partial rebuilds of the crash log's texts lose and repeat nothing: a text
\* always lists what is pending, and a trap's _logStart is where its part starts.
LogTextsMatch ==
  \A t \in Threads :
    /\ pendingLog[t] = IdsOf(errors[t])
    /\ trappedLog[t] = IdsOf(ContentsOf(traps[t], Len(traps[t])))
    /\ \A i \in DOMAIN traps[t] :
         \/ traps[t][i].logStart = SizeBelow(traps[t], i)
         \/ traps[t][i].logStart = Unset /\ traps[t][i].container = <<>>

LoggedBy(t) == Range(pendingLog[t]) \cup Range(trappedLog[t])
Logged == Range(errorTransport.pin) \cup Range(diagnosticTransport.pin)
            \cup UNION {LoggedBy(t) : t \in Threads}

\* "Diagnostic messages for unhandled errors are always reported, either via
\* delegates/stderr, or to the crash log in case of a crash" (errorOverview.dox):
\* whenever the program crashes, a diagnostic nobody has handled has been
\* reported or is in the log.  The exceptions are the call that issues it, Dismiss,
\* which takes a trap's diagnostics out of the log before it posts them, and a
\* TfErrorTransport that has reported its errors before.
Unlogged(t) ==
  \/ work[t].of \in {"Post", "Dismiss"}
  \/ work[t].of = "ErrorTransport" /\ errorTransport.pin = <<>>

CrashLogHasUnreported ==
  \A id \in 1..issued : fate[id] = "Open" =>
    \/ id \in Logged
    \/ \E t \in Threads : Unlogged(t) /\ id \in Range(IdsOf(work[t].todo))

\* The texts for the crash log are those of the diagnostics, and none is missing.
CrashLogIsRight == LogTextsMatch /\ CrashLogHasUnreported

\* However diagnostics travel, each is in exactly one place until it is reported,
\* handled or dropped, and then in none: no report, repost or splice loses one or
\* delivers it twice, and a transport that kept its errors delivers them again only
\* if it is posted again, which counts as issuing them again.  What a loop has in
\* todo, its source no longer answers for, nor does a TfErrorTransport that was
\* posted without a mark.
Pending(t) == IF Uses(t, "Mark") THEN SubSeq(errors[t], 1, work[t].before) ELSE errors[t]

ErrorList(t) == [kind |-> "List", of |-> t]
Report(t) == [kind |-> "Report", of |-> t]
TrapAt(t, i) == [kind |-> "Trap", of |-> t, at |-> i]
Transport(what) == [kind |-> what]
Holders ==
  {ErrorList(t) : t \in Threads} \cup {Report(t) : t \in Threads}
    \cup (UNION {{TrapAt(t, i) : i \in DOMAIN traps[t]} : t \in Threads})
    \cup {Transport("ErrorTransport"), Transport("DiagnosticTransport")}

Held(h) ==
  CASE h.kind = "List" -> Pending(h.of)
    [] h.kind = "Report" -> work[h.of].todo
    [] h.kind = "Trap" -> traps[h.of][h.at].container
    [] h.kind = "ErrorTransport" ->
         IF Free("ErrorTransport") /\ errorTransport.pin # <<>> THEN errorTransport.list ELSE <<>>
    [] h.kind = "DiagnosticTransport" ->
         IF Free("DiagnosticTransport") THEN diagnosticTransport.list ELSE <<>>

Places(id) ==
  UNION {{<<h, i>> : i \in {j \in DOMAIN Held(h) : Held(h)[j].id = id}} : h \in Holders}
IsOpen(id) == id <= issued /\ fate[id] = "Open"
InOnePlace == \A id \in Ids : Cardinality(Places(id)) = IF IsOpen(id) THEN 1 ELSE 0

\* Delegates "synchronize their destruction and removal safely" with reports
\* (diagnosticMgr.cpp:341): no report has a delegate yet to call that has been
\* removed, and so may be gone.
NoDeadDelegate == \A t \in Threads : Range(work[t].rest) \subseteq Range(delegates)

\* The types, serial numbers and places as marks and transports need them, and
\* delegates as reports do.
DiagnosticsAccount == TypeOK /\ SerialsAreUnique /\ InOnePlace /\ NoDeadDelegate

\* "Post all contained errors to the current thread's error list, leaving this
\* TfErrorTransport empty." (errorTransport.h:36-37): once posted, it holds none.
TransportIsLeftEmpty ==
  errorTransport.pin = <<>> /\ Free("ErrorTransport") => errorTransport.list = <<>>

\* "When the last TfErrorMark object on a thread is destroyed, if the error list
\* is not empty, then those remaining errors are reported" (errorOverview.dox).
LastMarkReports ==
  \A t \in Threads : marks[t] = <<>> /\ IsIdle(t) => errors[t] = <<>>
=============================================================================
