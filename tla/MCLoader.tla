------------------------------ MODULE MCLoader ------------------------------
(***************************************************************************)
(* Small images: files of zero to five bytes in sectors of two, with one   *)
(* and with two segments, and names that differ only after their cut.      *)
(***************************************************************************)
EXTENDS Loader

Segment(type, offset, filesz) == [type |-> type, offset |-> offset, filesz |-> filesz]
File(n, elf, entry, phdrs, length) ==
    [name |-> n, elf |-> elf, entry |-> entry, phdrs |-> phdrs,
     bytes |-> [i \in 1 .. length |-> 10 * entry + i]]

MCKernel == File(<<"k">>, TRUE, 9, <<Segment("LOAD", 1, 3)>>, 5)

Files ==
    {File(<<"a">>, TRUE, 1, <<Segment("LOAD", 1, 5)>>, 6),
     File(<<"a", "b">>, TRUE, 2, <<Segment("LOAD", 3, 1), Segment("NOTE", 0, 7), Segment("LOAD", 0, 1)>>, 7),
     File(<<"a", "b", "c">>, TRUE, 3, <<Segment("LOAD", 1, 0)>>, 1),
     File(<<"b">>, FALSE, 4, <<Segment("LOAD", 0, 1)>>, 1)}

MCUserLists == UNION {{u \in [1 .. n -> Files] : IsInjective(u)} : n \in 0 .. 3}
MCNames == {<<>>, <<"a">>, <<"a", "b">>, <<"a", "b", "d">>, <<"b">>}
=============================================================================
