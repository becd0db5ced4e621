----------------------------- MODULE MCDownload -----------------------------
(* Bodies in four styles of chunk.  An empty body, one byte, and bytes that *)
(* look like the end of a chunked body, in one chunk and cut in two, or     *)
(* like a line end across two chunks.                                       *)
EXTENDS Download_proofs

LOCAL INSTANCE SequencesExt

Contents ==
    {<<>>, <<<<"x">>>>, <<<<"0", "CR", "LF">>>>,
     <<<<"0">>, <<"CR", "LF">>>>, <<<<"1", "CR">>, <<"LF">>>>}

(* The size, perhaps with zeros before it, or an extension or spaces after  *)
(* it.                                                                      *)
Styles == {"plain", "zero", "extension", "spaces"}

SizeLine(size, style) ==
    LET digit == LowerHex[size + 1]
    IN CASE style = "plain" -> <<digit>>
         [] style = "zero" -> <<"0", digit>>
         [] style = "extension" -> <<digit, ";", "1">>
         [] style = "spaces" -> <<digit, " ">>

Marked(bytes, isData) ==
    [i \in DOMAIN bytes |-> [byte |-> bytes[i], data |-> isData]]

Chunk(bytes, style) ==
    Marked(SizeLine(Len(bytes), style) \o <<"CR", "LF">>, FALSE)
        \o Marked(bytes, TRUE) \o Marked(<<"CR", "LF">>, FALSE)

(* The body, and for every start of a chunk where its line ends.            *)
Body(contents, style) ==
    LET all == Append(contents, <<>>)
        before == [i \in DOMAIN all |->
                    FlattenSeq([j \in 1..(i - 1) |-> Chunk(all[j], style)])]
        start == [i \in DOMAIN all |-> Len(before[i]) + 1]
        end == [i \in DOMAIN all |->
                    start[i] + Len(SizeLine(Len(all[i]), style))]
    IN [sent |-> FlattenSeq([i \in DOMAIN all |-> Chunk(all[i], style)]),
        ends |-> [s \in {start[i] : i \in DOMAIN all} |->
                    end[CHOOSE i \in DOMAIN all : start[i] = s]]]

MCBodies == {Body(contents, style) : contents \in Contents, style \in Styles}
=============================================================================
