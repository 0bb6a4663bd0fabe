----------------------------- MODULE RWLockWord -----------------------------
(***************************************************************************)
(* The lock word of TfSpinRWMutex (spinRWMutex.h): one atomic int whose    *)
(* lowest bit is the writer flag and whose other bits count readers.  Each *)
(* operator is the value that one atomic read-modify-write of that file    *)
(* stores.  The int overflows only with 2^30 readers at once, far beyond   *)
(* any number of threads, so the word is an unbounded integer here.        *)
(*                                                                         *)
(* In this and the other modules a definition F_Slip, just above F, is a   *)
(* plausible bug in the code of F; no specification uses it.  A property   *)
(* of a run must fail when F is replaced by its slip.                      *)
(***************************************************************************)
EXTENDS Integers

OneReader  == 2
WriterFlag == 1

\* state & WriterFlag
HasWriter_TestsWholeWord(s) == s = WriterFlag

HasWriter(s) == s % OneReader = WriterFlag

\* fetch_add(OneReader)
AddReader(s) == s + OneReader

\* fetch_sub(OneReader)
DropReader(s) == s - OneReader

\* fetch_or(WriterFlag)
SetWriter(s) == IF HasWriter(s) THEN s ELSE s + WriterFlag

\* fetch_and(~WriterFlag)
ClearWriter_Nothing(s) == s

ClearWriter(s) == IF HasWriter(s) THEN s - WriterFlag ELSE s

\* fetch_add(OneReader - 1): clears an owned flag and adds a reader at once.
WriterToReader_KeepsFlag(s) == s + OneReader

WriterToReader(s) == s + (OneReader - 1)

\* The condition _WaitForReaders polls for.
OnlyWriter_OneReaderLeft(s) == s \in {WriterFlag, OneReader + WriterFlag}

OnlyWriter(s) == s = WriterFlag
=============================================================================
