------------------------------ MODULE MCReceiver ------------------------------
(***************************************************************************)
(* Instances of Receiver for TLC: two or three pieces on either bus.       *)
(***************************************************************************)
EXTENDS Receiver, TLC

Noise(bytes) == [is |-> "noise", bytes |-> bytes]
SaturnPiece(f) == [is |-> "saturn", frame |-> f]
DtvPiece(f) == [is |-> "dtv", frame |-> f]

\* Nothing outstanding, or a poll of the outlets, whose reply has one byte of
\* data in the small instance.
MCAwaitings == {Saturn!NoRequest, [length |-> 7, control |-> 7]}

\* The reply; one that holds a sync pair's halves; a NAK; a reply of the wrong
\* length; the master's own request heard back.
SaturnPieces ==
  {SaturnPiece(Saturn!Frame(0, 7, <<170>>)), SaturnPiece(Saturn!Frame(0, 7, <<85>>)),
   SaturnPiece(Saturn!Frame(0, 7, <<170, 85>>)), SaturnPiece(Saturn!Frame(3, 7, <<>>)),
   Noise(<<170>>), Noise(<<170, 85>>), Noise(<<170, 85, 0, 7, 2>>), Noise(<<170, 85, 0, 7, 200>>)}

\* A status; payloads and a checksum of reserved bytes; noise that opens a
\* frame, escapes what follows it, or never ends.
DtvPieces ==
  {DtvPiece(Dtv!Frame(0, 4, 49, <<>>)), DtvPiece(Dtv!Frame(0, 4, 49, <<136, 85>>)),
   DtvPiece(Dtv!Frame(0, 4, 252, <<170>>)), DtvPiece(Dtv!Frame(0, 4, 82, <<>>)),
   Noise(<<170>>), Noise(<<136>>), Noise(<<136, 1, 170>>), Noise(<<136, 85>>),
   Noise(<<136, 1, 2, 3, 4, 5, 6, 7, 8, 9>>)}

PieceSequences(pieces) == {<<a, b>> : a, b \in pieces} \cup {<<a, b, c>> : a, b, c \in pieces}

MCScripts ==
  {[protocol |-> "saturn", pieces |-> p] : p \in PieceSequences(SaturnPieces)}
    \cup {[protocol |-> "dtv", pieces |-> p] : p \in PieceSequences(DtvPieces)}

=============================================================================
