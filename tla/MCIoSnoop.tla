----------------------------- MODULE MCIoSnoop ------------------------------
\* Small instances of IoSnoop for TLC.
EXTENDS IoSnoop, TLC

CONSTANTS t1, t2

OneThread  == {t1}
TwoThreads == {t1, t2}
\* Two threads of one process.
OnePid == [t \in Threads |-> {5}]
ThreadSymmetry == Permutations(Threads)
\* Two processes whose pids differ in a bit that no page number reaches.
FarPids == [t \in Threads |-> IF t = t1 THEN {5} ELSE {6}]
LowPage == [hi |-> {}, lo |-> 1]
HighPage == [hi |-> {0}, lo |-> 1]
TwoPages == {LowPage, HighPage}
\* Each page, and the two from the low one.
PageRanges == {[start |-> p, pages |-> {p}] : p \in TwoPages}
              \cup {[start |-> LowPage, pages |-> TwoPages]}
OneRange == {[start |-> LowPage, pages |-> {LowPage}]}

\* One operation of every group of handlers, in the order of the object file.
MixedOps == <<"read", "mkdir", "getattr", "readv", "unlink", "getdents", "mmap", "lock_fcntl">>
OverlayNests == {<<"mkdir", "mkdir">>, <<"mkdir", "read">>}
MappingOps == <<"mmap", "munmap">>
NoNests == {}
=============================================================================
