---------------------------- MODULE MCMediaInput ----------------------------
(* Recordings of one to three frames, an empty frame among them.            *)
EXTENDS MediaInput_proofs

LOCAL INSTANCE SequencesExt

\* The offset of the header of the i-th frame, and the file.
Start(frames, i) ==
    FoldLeft(LAMBDA sum, size : sum + HeaderSize + size, 0,
             SubSeq(frames, 1, i - 1))

Recording(frames) ==
    LET start == [i \in 1..(Len(frames) + 1) |-> Start(frames, i)] IN
    [sizes |-> [h \in {start[i] : i \in DOMAIN frames} |->
                    frames[CHOOSE i \in DOMAIN frames : start[i] = h]],
     end |-> start[Len(frames) + 1]]

MCRecordings == {Recording(frames) : frames \in {<<1>>, <<3, 1>>, <<2, 0, 3>>}}
=============================================================================
