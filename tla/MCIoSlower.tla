----------------------------- MODULE MCIoSlower -----------------------------
\* Small instances of IoSlower for TLC.
EXTENDS IoSlower, TLC

CONSTANTS t1, t2

OneThread  == {t1}
TwoThreads == {t1, t2}
\* Two processes whose pids differ in a bit that no page number reaches.
FarPids == [t \in Threads |-> IF t = t1 THEN {5} ELSE {6}]
LowPage == [hi |-> {}, lo |-> 1]
HighPage == [hi |-> {0}, lo |-> 1]
TwoPages == {LowPage, HighPage}
\* Each page, and the two from the low one.
PageRanges == {[start |-> p, pages |-> {p}] : p \in TwoPages}
              \cup {[start |-> LowPage, pages |-> TwoPages]}
OneRange == {[start |-> LowPage, pages |-> {LowPage}]}

NestedOps == <<"read", "mkdir">>
OverlayNests == {<<"mkdir", "mkdir">>, <<"read", "read">>, <<"mkdir", "read">>}
\* One operation of every other group of handlers, in the order of the object file.
MappingOps == <<"getattr", "readv", "unlink", "getdents", "mmap", "munmap", "lock_fcntl">>
NoNests == {}
=============================================================================
