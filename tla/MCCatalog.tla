------------------------------ MODULE MCCatalog ------------------------------
(* An archive that is added to the roots after the program first runs,     *)
(* with three files, one of them without a title; and a plain file, of the *)
(* same title as one of those, that changes once, within a second or not,  *)
(* cannot always be read and is not always taken by the table.             *)
EXTENDS CatalogPipeline

MCContainers == <<"zip", "plain">>
MCArchives == {"zip"}
MCFilesOf == [zip |-> <<"a", "b", "d">>, plain |-> <<"c">>]
MCSeconds == [zip |-> {1}, plain |-> {1, 2}]
MCMaxVersion == [zip |-> 1, plain |-> 2]
MCAtFirst == [zip |-> <<>>, plain |-> <<1>>]
MCKey == [a |-> 1, b |-> 0, c |-> 2, d |-> 2]
==============================================================================
