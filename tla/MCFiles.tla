------------------------------- MODULE MCFiles -------------------------------
(* Small instances of Files for TLC. *)
EXTENDS Files, TLC

CONSTANTS r1, r2, r3

a == <<"a">>   b == <<"b">>   ax == <<"a", "x">>   bx == <<"b", "x">>
Tree == <<a, ax, b, bx>>

\* The folder a, with the file a/x.
StartFolders == {a}
StartStored  == {ax}

Uploads == [kind : {"upload"}, path : {bx}, n : {1}, scan : {"clean", "magic"}]
    \cup [kind : {"upload"}, path : {b}, n : {1}, scan : {"clean"}]
    \cup [kind : {"upload"}, path : {ax}, n : {1}, scan : {"name", "magic"}]
    \cup [kind : {"upload"}, path : {ax}, n : {0, 3}, scan : {"clean"}]
Copies == {[kind |-> "copy", path |-> p, to |-> t] :
             <<p, t>> \in {<<a, b>>, <<ax, b>>, <<ax, bx>>}}
Moves == {[op |-> "move", path |-> p, to |-> t] :
             <<p, t>> \in {<<a, b>>, <<ax, bx>>}}
Deletes == [op : {"delete"}, path : {a, ax}, to : {None}]
Partial == [op |-> "move", path |-> ax, to |-> None]
Single  == {[kind |-> "items", bulk |-> FALSE, ops |-> <<o>>] : o \in Moves \cup Deletes}
Bulk    == {[kind |-> "items", bulk |-> TRUE, ops |-> o] :
              o \in {<<d, e>> : d \in {[op |-> "delete", path |-> bx, to |-> None],
                                       [op |-> "delete", path |-> ax, to |-> None]},
                                e \in {[op |-> "delete", path |-> a, to |-> None]}}
                  \cup {<<[op |-> "move", path |-> b, to |-> a],
                          [op |-> "move", path |-> ax, to |-> bx]>>, <<Partial>>,
                        <<Partial, [op |-> "move", path |-> a, to |-> b]>>}}
Mkdirs    == [kind : {"mkdir"}, path : {bx}]
Downloads == {[kind |-> "download", path |-> ax, range |-> g] :
                g \in {None, <<0, 0>>, <<None, 1>>, <<0, 2>>}}
             \cup {[kind |-> "download", path |-> a, range |-> None]}
Lists     == [kind : {"list"}, path : {<<>>}, deep : {TRUE}, limit : {1}, offset : {0}]

AllAsks  == Uploads \cup Copies \cup Single \cup Bulk \cup Mkdirs \cup Downloads \cup Lists
JustList == [kind : {"list"}, path : {<<>>, a}, deep : BOOLEAN, limit : 1..2, offset : 0..1]

Symmetric == Permutations(Requests)
=============================================================================
