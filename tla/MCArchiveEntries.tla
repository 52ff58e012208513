-------------------------- MODULE MCArchiveEntries --------------------------
(* Small instances of ArchiveEntries for TLC. *)
EXTENDS ArchiveEntries
LOCAL INSTANCE SequencesExt

MCNames == {"a", "b"}
MCRawNames == SeqOf({"a", "b", "", ".", ".."}, 4)

Entry(name, kind, readable) == [name |-> name, kind |-> kind, readable |-> readable]
Good  == {Entry(<<"a">>, "file", TRUE), Entry(<<".", "a">>, "file", TRUE),
          Entry(<<"", "a", "", "b">>, "file", TRUE)}
Bad   == {Entry(<<"a", "..", "b">>, "file", TRUE), Entry(<<"", "">>, "file", TRUE),
          Entry(<<"b">>, "file", FALSE)}
Other == {Entry(<<"a", "">>, "dir", TRUE), Entry(<<"b">>, "other", TRUE)}
Few   == (Good \cup Bad) \ {Entry(<<"", "a", "", "b">>, "file", TRUE)}

Archive(rar, h, s, f, blocks, last) ==
  [rar |-> rar, head |-> h, suffix |-> s, format |-> f, blocks |-> blocks, tail |-> last]

(* The code's own loops, with up to three entries. *)
Streams ==
  {Archive(TRUE, f, Unset, Unset, <<s>>, <<>>) :
     f \in {"zip", "tar", "rar"}, s \in SeqOf(Good \cup Bad \cup Other, 3)}

(* 7z: two blocks of up to two entries, and a tail. *)
Blocks ==
  {Archive(FALSE, Unset, "7z", Unset, <<s, t>>, u) :
     s \in SeqOf(Few, 2), t \in SeqOf(Few, 2),
     u \in {<<>>, <<Entry(<<"b">>, "file", TRUE)>>, <<Entry(<<"a", "">>, "dir", TRUE)>>,
            <<Entry(<<"a", "">>, "dir", FALSE), Entry(<<"b">>, "other", TRUE)>>}}

(* What the bytes, the name and the caller say of the format. *)
Named ==
  {Archive(r, h, s, f, <<<<Entry(<<"a">>, "file", TRUE)>>>>, <<>>) :
     r \in BOOLEAN, h \in {Unset, "zip", "tar.gz"}, s \in {Unset, "tar", "rar"}, f \in {Unset, "7z", "zip"}}

MCArchives == Streams \cup Blocks \cup Named
=============================================================================
