--------------------------- MODULE MCCropPipeline ---------------------------
(***************************************************************************)
(* Small crops: four nodes, two ways and two relations, whose ids are the  *)
(* same numbers, in files of three or four blocks.                         *)
(***************************************************************************)
EXTENDS CropReread

\* Node 5 is in no file.
AllIds == 1..5
AllWords == {"", "a", "b", "c", "u"}
G(kind, ids) == [kind |-> kind, ids |-> ids]
Uses == [e \in Element |-> CASE e = <<"node", 1>> -> <<4, 2>>
                             [] e = <<"node", 3>> -> <<3>>
                             [] e = <<"way", 1>> -> <<2, 5>>
                             [] e = <<"way", 2>> -> <<2, 4, 5>>
                             [] e = <<"relation", 1>> -> <<5>>
                             [] OTHER -> <<>>]
B(groups) == [groups |-> groups, strings |-> <<"", "a", "b", "c", "u">>, words |-> Uses,
              standard |-> TRUE, legible |-> TRUE]
SortedFile == <<B(<<G("node", <<1, 2>>)>>), B(<<G("node", <<3, 4>>)>>),
                B(<<G("way", <<1, 2>>)>>), B(<<G("relation", <<1, 2>>)>>)>>
DenseFile == <<B(<<G("node", <<1, 2, 3, 4>>), G("way", <<1>>)>>),
               B(<<G("way", <<2>>), G("relation", <<1, 2>>)>>)>>
UnsortedFile == <<B(<<G("way", <<1>>)>>), B(<<G("node", <<1, 2>>), G("relation", <<1>>)>>),
                  B(<<G("relation", <<2>>)>>), B(<<G("node", <<3, 4>>), G("way", <<2>>)>>)>>
With(file, b, field) ==
    [file EXCEPT ![b] = IF field = "standard" THEN [@ EXCEPT !.standard = FALSE]
                                              ELSE [@ EXCEPT !.legible = FALSE]]

AsFunction(a, b) == [i \in AllIds |-> IF i = 1 THEN a ELSE IF i = 2 THEN b ELSE {}]
AllRefs == {AsFunction({1, 2}, {3, 4}), AsFunction({1, 3}, {4, 5})}
AllMembers ==
    {AsFunction(a, b) : a \in {{<<"way", 1>>}, {<<"node", 3>>}, {<<"relation", 2>>, <<"way", 2>>}},
                        b \in {{<<"way", 2>>, <<"node", 1>>}, {<<"relation", 1>>}}}
Plain == [n \in AllIds |-> "full"]
OneBare == [n \in AllIds |-> IF n = 3 THEN "bare" ELSE "full"]

Calls(sources, refs, members, reach, schemas, workers, flags) ==
    UNION {[source : sources, supported : {TRUE}, inside : reach, refs : refs, members : members,
            schema : schemas, workers : workers, keep_relations : {f[1]},
            compact : {f[2]}, repack : {f[3]}, onto_source : {f[4]}] : f \in flags}
T == TRUE
F == FALSE
SmallCrops ==
    \* the sequential path: every box, and all ways to write
    Calls({SortedFile, DenseFile, UnsortedFile}, AllRefs, AllMembers, SUBSET (1..3),
          {Plain, OneBare}, {1}, {<<T, F, F, F>>, <<T, T, F, F>>, <<T, F, T, F>>})
      \cup Calls({SortedFile, UnsortedFile}, AllRefs, {AsFunction({<<"way", 1>>}, {<<"way", 2>>, <<"node", 1>>})}, {{1}, {2, 3}}, {Plain}, {1},
                 {<<F, F, F, F>>, <<F, F, T, F>>, <<T, F, F, T>>})
    \* what is refused
      \cup Calls({With(SortedFile, b, x) : b \in 1..4, x \in {"standard", "legible"}}, AllRefs,
                 {AsFunction({<<"way", 1>>}, {<<"relation", 1>>})}, {{1}}, {Plain}, {1, 2},
                 {<<T, F, F, F>>, <<T, F, T, F>>})
    \* two workers on four blocks
      \cup Calls({SortedFile, UnsortedFile}, {AsFunction({1, 3}, {4, 5})},
                 {AsFunction({<<"node", 3>>}, {<<"relation", 1>>})}, {{1}, {2}}, {Plain}, {2},
                 {<<T, F, F, F>>, <<F, T, F, F>>, <<T, F, T, F>>, <<T, F, F, T>>})
MCCrops == SmallCrops \cup {[c EXCEPT !.supported = FALSE] : c \in {d \in SmallCrops : d.workers = 2}}
=============================================================================
