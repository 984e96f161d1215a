---------------------------- MODULE MCSaveDialog ----------------------------
EXTENDS SaveDialog

CONSTANTS s1, s2, d1, f1, f2, f3

MCStorageOf == [d \in {d1} |-> s1]

\* A rule sends the files of an album to a new directory of another storage.
MCRuleFor == [f \in {f1, f2, f3} |->
    IF f = f3 THEN None ELSE [stor |-> s2, path |-> NewForAlbum]]

MCRanges == {{f1}, {f1, f2}}
=============================================================================
