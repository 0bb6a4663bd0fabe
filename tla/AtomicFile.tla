----------------------------- MODULE AtomicFile -----------------------------
(***************************************************************************)
(* TfSafeOutputFile and TfAtomicOfstreamWrapper: the threads of a process  *)
(* that replace one target file, each through a temporary file next to it  *)
(* that is renamed over the target when it is complete, or update it in    *)
(* place.  Writes are buffered and may fail when they are flushed.  The    *)
(* file system is external: files have an identity, names refer to them.   *)
(***************************************************************************)
EXTENDS Integers, Sequences, FiniteSets

CONSTANTS
  Writers,       \* the threads
  KindsOfOutput, \* of "Replace", "Stream" (the wrapper) and "Update"
  TargetExists   \* the values of whether there is a target at first

Parts == 2                  \* what a writer has to write

VARIABLES
  files,     \* files[f]: [parts, mode] of a file, named or not
  target,    \* the file the target's name refers to, 0 if there is none
  temps,     \* the files that have a temporary name
  umask,     \* the process's umask: "Kept" as it was, or "Cleared"
  output,    \* output[w]: the writer's TfSafeOutputFile or wrapper; failed: it reported an
             \* error; cut: history, the last flush failed and nobody looked
  running    \* FALSE after a crash

fileVars == <<files, target, temps, umask, output, running>>

Shut == [at |-> "Shut", kind |-> "None", file |-> 0, mode |-> "None", failed |-> FALSE,
         cut |-> FALSE]

FileInit ==
  /\ \E there \in TargetExists :
       /\ files = IF there THEN <<[parts |-> Parts, mode |-> "Chosen"]>> ELSE <<>>
       /\ target = IF there THEN 1 ELSE 0
  /\ temps = {}
  /\ umask = "Kept"
  /\ output = [w \in Writers |-> Shut]
  /\ running = TRUE

Is(w, place) == running /\ output[w].at = place
To(w, place) == output' = [output EXCEPT ![w].at = place]
Closes(w) == To(w, "Closed")

-----------------------------------------------------------------------------
(* Opening. *)

\* Replace, and Open of the wrapper.  Tf_CreateSiblingTempFile fails if the target is
\* not writable, or makes a new file.
OpenReplacing(w, kind) ==
  /\ Is(w, "Shut") /\ kind \in {"Replace", "Stream"}
  /\ \/ /\ Closes(w)
        /\ UNCHANGED <<files, temps>>
     \/ /\ files' = Append(files, [parts |-> 0, mode |-> "Temporary"])
        /\ temps' = temps \cup {Len(files) + 1}
        /\ output' = [output EXCEPT ![w] =
                        [Shut EXCEPT !.at = "Made", !.kind = kind, !.file = Len(files) + 1]]
  /\ UNCHANGED <<target, umask, running>>

\* ArchFdOpen, or opening the stream: on failure the temporary file is left behind,
\* since Close and Cancel do nothing without an open file.
OpenStream(w) ==
  /\ Is(w, "Made")
  /\ To(w, "Open") \/ output' = [output EXCEPT ![w].at = "Closed", ![w].failed = TRUE]
  /\ UNCHANGED <<files, target, temps, umask, running>>

\* Update: what is there is no longer whole until all is written.  (ReleaseUpdatedFile
\* hands the open file to the caller, who goes on as the writer does here.)
OpenUpdating(w) ==
  /\ Is(w, "Shut") /\ target # 0
  /\ output' = [output EXCEPT ![w] = [Shut EXCEPT !.at = "Open", !.kind = "Update", !.file = target]]
  /\ files' = [files EXCEPT ![target].parts = 0]
  /\ UNCHANGED <<target, temps, umask, running>>

-----------------------------------------------------------------------------
(* Writing and closing. *)

Write(w) ==
  LET f == output[w].file
  IN /\ Is(w, "Open") /\ files[f].parts < Parts
     /\ files' = [files EXCEPT ![f].parts = @ + 1]
     /\ UNCHANGED <<target, temps, umask, output, running>>

\* The last part is flushed by fclose or close; neither's failure is looked at.  Whose
\* earlier writes failed calls Discard or Cancel.
CloseOutput(w) ==
  LET f == output[w].file
      next == IF output[w].kind = "Update" THEN "Closed" ELSE "Stat"
  IN /\ Is(w, "Open")
     /\ files[f].parts >= Parts - 1
     /\ \/ /\ files' = [files EXCEPT ![f].parts = Parts]
           /\ To(w, next)
        \/ /\ files[f].parts < Parts
           /\ output' = [output EXCEPT ![w].at = next, ![w].cut = TRUE]
           /\ UNCHANGED files
     /\ UNCHANGED <<target, temps, umask, running>>

\* Discard and Cancel (or the wrapper's destructor): close, then remove.
Unlinks_Never(w) == FALSE

Unlinks(w) == output[w].kind # "Update"

DiscardOutput(w) ==
  /\ Is(w, "Open") /\ output[w].kind # "Update"
  /\ To(w, "Unlink")
  /\ UNCHANGED <<files, target, temps, umask, running>>

\* A failure is reported, and the file stays.
Unlink(w) ==
  /\ Is(w, "Unlink")
  /\ \/ /\ temps' = IF Unlinks(w) THEN temps \ {output[w].file} ELSE temps
        /\ Closes(w)
     \/ /\ output' = [output EXCEPT ![w].at = "Closed", ![w].failed = TRUE]
        /\ UNCHANGED temps
  /\ UNCHANGED <<files, target, umask, running>>

-----------------------------------------------------------------------------
(* Tf_AtomicRenameFileOver: the new file gets the target's mode or the      *)
(* default one, for which the umask is read by clearing it for a moment.   *)

StatTarget(w) ==
  /\ Is(w, "Stat")
  /\ output' = [output EXCEPT ![w].at = IF target = 0 THEN "ReadUmask" ELSE "Chmod",
                              ![w].mode = IF target = 0 THEN "None" ELSE files[target].mode]
  /\ UNCHANGED <<files, target, temps, umask, running>>

ReadUmask(w) ==
  /\ Is(w, "ReadUmask")
  /\ umask' = "Cleared"
  /\ output' = [output EXCEPT ![w].at = "RestoreUmask", ![w].mode = umask]
  /\ UNCHANGED <<files, target, temps, running>>

RestoreUmask(w) ==
  /\ Is(w, "RestoreUmask")
  /\ umask' = output[w].mode
  /\ To(w, "Chmod")
  /\ UNCHANGED <<files, target, temps, running>>

\* "Kept" is now the mode that the default leaves under the umask, "Cleared" the default
\* itself.  A failure is warned about.
Chmod(w) ==
  /\ Is(w, "Chmod")
  /\ \/ files' = [files EXCEPT ![output[w].file].mode = output[w].mode]
     \/ files' = files
  /\ To(w, "Rename")
  /\ UNCHANGED <<target, temps, umask, running>>

Renames(w) ==
  /\ Is(w, "Rename")
  /\ \/ /\ target' = output[w].file
        /\ temps' = temps \ {output[w].file}
        /\ Closes(w)
     \/ /\ output' = [output EXCEPT ![w].at = "Closed", ![w].failed = TRUE]
        /\ UNCHANGED <<target, temps>>
  /\ UNCHANGED <<files, umask, running>>

Crash ==
  /\ running /\ \E w \in Writers : output[w].at \notin {"Shut", "Closed"}
  /\ running' = FALSE
  /\ UNCHANGED <<files, target, temps, umask, output>>

FileNext ==
  \/ \E w \in Writers :
       \/ \E kind \in KindsOfOutput \ {"Update"} : OpenReplacing(w, kind)
       \/ "Update" \in KindsOfOutput /\ OpenUpdating(w)
       \/ OpenStream(w) \/ Write(w) \/ CloseOutput(w) \/ DiscardOutput(w) \/ Unlink(w)
       \/ StatTarget(w) \/ ReadUmask(w) \/ RestoreUmask(w) \/ Chmod(w) \/ Renames(w)
  \/ Crash

FileSpec == FileInit /\ [][FileNext]_fileVars

-----------------------------------------------------------------------------
(* Properties. *)

IsWhole(f) == files[f].parts = Parts
UpdatedInPlace(f) == \E w \in Writers : output[w].kind = "Update" /\ output[w].file = f

\* The writer whose file this is had closed it before it was all there.
CutShort(f) == \E w \in Writers : output[w].file = f /\ output[w].cut

\* Who opens the target finds a complete file at any time, a crash of the process in
\* the middle of anything included, unless it is updated in place, or the last flush of
\* its writer failed; and the only temporary files are those of writers that are not
\* finished, were stopped by a crash, or reported that they could not open, rename or
\* remove theirs: after that neither closing nor Cancel removes it
\* (safeOutputFile.cpp:60-145, atomicOfstreamWrapper.cpp:42-130, atomicRenameUtil.cpp:160-199).
ReplacedAtOnce ==
  /\ target # 0 => IsWhole(target) \/ UpdatedInPlace(target) \/ CutShort(target)
  /\ \A f \in temps : f # target /\
       \E w \in Writers : output[w].file = f /\ (output[w].at # "Closed" \/ output[w].failed)

\* "if the destination existed prior to writing, it is left untouched in the event of a
\* write failure, and if the destination did not exist, a partial file is not written"
\* (atomicOfstreamWrapper.h:30-33).
FailureLeavesTarget == target # 0 => IsWhole(target) \/ UpdatedInPlace(target)

\* "If wrapper goes out of scope without being Commit()ed, Cancel() is called, and the
\* temporary file is removed" (atomicOfstreamWrapper.h:56-57).
TemporariesAreRemoved ==
  \A f \in temps : \E w \in Writers : output[w].file = f /\ output[w].at # "Closed"

\* The file is "to be created with default permissions modulo umask"
\* (atomicRenameUtil.cpp:171-172).
ModeIsMasked == target # 0 => files[target].mode # "Cleared"
=============================================================================
