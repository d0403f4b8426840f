----------------------------- MODULE MCPEViewer -----------------------------
(***************************************************************************)
(* Two small PE files with relocation pages at the same offsets: in "a" the *)
(* sections touch in memory, in "b" there is a gap between them, a page     *)
(* below the first section and an import table that cannot be found.        *)
(***************************************************************************)
EXTENDS PEViewer

Entry(highlow, offset) == [highlow |-> highlow, offset |-> offset]

ImageA ==
  [size |-> 24, base |-> 4,
   secs |-> <<[va |-> 16, raw |-> 8, ptr |-> 8], [va |-> 24, raw |-> 8, ptr |-> 16]>>,
   dir |-> [kind \in Tables |-> CASE kind = "exports" -> 28 [] kind = "imports" -> 20
                                  [] kind = "resources" -> 24 [] kind = "tls" -> 0
                                  [] OTHER -> 16],
   holds |->
     <<"relocs", 8>> :> <<[va |-> 16, entries |-> <<Entry(TRUE, 1), Entry(TRUE, 6)>>],
                          [va |-> 24, entries |-> <<Entry(TRUE, 3), Entry(FALSE, 0)>>]>> @@
     <<"imports", 12>> :> <<[name |-> 18, iat |-> 24], [name |-> 26, iat |-> 20]>> @@
     <<"thunks", 16>> :> <<30, 100>> @@ <<"thunks", 12>> :> <<17>> @@
     <<"exports", 20>> :> <<[heads |-> <<21, 28, 29, 30>>, funcs |-> <<16, 0, 27, 18>>,
                             ords |-> <<2, 0, 2>>, names |-> <<22, 31, 100>>]>> @@
     <<"resources", 16>> :> <<<<17, 29>>, <<25>>>>]

ImageB ==
  [size |-> 24, base |-> 8,
   secs |-> <<[va |-> 16, raw |-> 8, ptr |-> 8], [va |-> 32, raw |-> 8, ptr |-> 16]>>,
   dir |-> [kind \in Tables |-> CASE kind = "relocs" -> 32 [] kind = "imports" -> 0 [] OTHER -> 18],
   holds |->
     <<"relocs", 16>> :> <<[va |-> 32, entries |-> <<Entry(TRUE, 2)>>],
                           [va |-> 16, entries |-> <<Entry(TRUE, 5), Entry(TRUE, 7)>>],
                           [va |-> 4, entries |-> <<Entry(TRUE, 0)>>]>> @@
     <<"exports", 10>> :> <<[heads |-> <<20, 19, 36, 37>>, funcs |-> <<0, 33>>,
                             ords |-> <<>>, names |-> <<>>]>> @@
     <<"resources", 10>> :> <<<<35>>>>]

MCImage == [f \in PE |-> IF f = "a" THEN ImageA ELSE ImageB]

\* Both files are of the kind whose relocation blocks PEViewerProofs!BlocksRight is about.
ASSUME RelocationsLinked == \A f \in PE : PagesLinked(f)

MCTyped == {0, 17, 24, 28, 35, 44, 70}
=============================================================================
