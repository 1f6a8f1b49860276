----------------------------- MODULE StreamProofs -----------------------------
(***************************************************************************)
(* For files, fields, blocks and chunks of every size and however recv     *)
(* cuts the stream: recvCycle keeps the receiver of a file where the       *)
(* sender is, the content goes where it belongs, the digest is the MD5 of  *)
(* the file, and a whole upload has it.                                    *)
(*                                                                         *)
(* StreamInv relates the two ends of the connection; FileInv adds what is  *)
(* in the receiver's file, DigestInv what is in the context of the MD5,    *)
(* and ArrivedInv and TypeInv follow from the three.                       *)
(***************************************************************************)
EXTENDS FileStream, SequenceTheorems, TLAPS

\* Where the sender is.
SenderPc == {"hash", "chunks", "open", "send", "closed"}

\* Where the receiver is.
ReceiverPc == {"nameLen", "name", "sizeLen", "size", "data", "done", "broken", "spin"}

\* The bytes the sender will send.
All == Start.data + Len(source)

\* The types that the byte counts need.
StreamType ==
  /\ kind \in Uploads \cup Downloads \cup {"md5"}
  /\ Len(source) \in Nat
  /\ sPc \in SenderPc /\ rPc \in ReceiverPc
  /\ sent \in Nat /\ rcvd \in Nat /\ total \in Nat /\ fileSize \in Int

\* The sender is never past its last byte, and stops before it only if it is
\* killed.
SenderInv ==
  /\ sent <= All
  /\ sPc \notin {"send", "closed"} => sent = 0
  /\ sPc = "send" => sent < All
  /\ sPc = "chunks" => kind = "md5"
  /\ kind = "md5" => sPc \in {"chunks", "closed"}
  /\ sPc = "closed" /\ ~cut /\ kind # "md5" => sent = All

\* Nothing will arrive any more.
Silent == cut /\ sPc = "closed" /\ rcvd = sent

\* The receiver is in the middle of its field, or nothing will arrive.
ReceiverInv ==
  /\ rcvd <= sent
  /\ rPc \in DOMAIN After => total < Width[rPc] /\ rcvd = Start[rPc] + total
  /\ rPc = "data" =>
       /\ total < fileSize
       /\ \/ rcvd = Start.data + total /\ fileSize = Len(source)
          \/ Silent
  /\ kind # "md5" /\ rPc \notin DOMAIN After => sPc \in {"send", "closed"}
  /\ kind # "md5" /\ rPc = "done" => rcvd = All \/ Silent
  /\ kind = "md5" => rPc = "done"

\* The invariant of the byte counts.
StreamInv == StreamType /\ SenderInv /\ ReceiverInv

\* The places of the fields follow from their widths.
LEMMA Layout ==
  ASSUME StreamAssumption
  PROVE  /\ DOMAIN After = {"nameLen", "name", "sizeLen", "size"}
         /\ DOMAIN Start = DOMAIN After \cup {"data"}
         /\ \A f \in DOMAIN After :
              /\ Width[f] \in Nat \ {0} /\ Start[f] \in Nat
              /\ After[f] \in DOMAIN Start
              /\ Start[After[f]] = Start[f] + Width[f]
              /\ Start[f] + Width[f] <= Start.data
              /\ f # "size" => After[f] \in DOMAIN After
         /\ Start.data \in Nat \ {0} /\ After["size"] = "data" /\ Start["nameLen"] = 0
         /\ Start.data = Start["size"] + Width["size"]
  BY DEF StreamAssumption, After, Start, Width

\* The bytes of a file.
Data == ({"new", "old", "edited"} \X Nat) \cup {ZERO}

\* Pieces of a sequence.
LEMMA Pieces ==
  ASSUME NEW S, NEW s \in Seq(S), NEW i \in Nat \ {0}, NEW j \in Nat,
         i <= j + 1, j <= Len(s)
  PROVE  /\ SubSeq(s, i, j) \in Seq(S) /\ Len(SubSeq(s, i, j)) = j - i + 1
         /\ \A k \in 1 .. j - i + 1 : SubSeq(s, i, j)[k] = s[i + k - 1]
  OBVIOUS

\* Two pieces in a row, copied one after the other, are one piece.
LEMMA MemcpyMore ==
  \A b : \A s \in Seq(Data), t \in Nat, n \in Nat :
    t + n <= Len(s) /\ DOMAIN b \subseteq Nat =>
      Memcpy(Memcpy(b, 0, SubSeq(s, 1, t)), t, SubSeq(s, t + 1, t + n))
        = Memcpy(b, 0, SubSeq(s, 1, t + n))
<1> SUFFICES ASSUME NEW b, NEW s \in Seq(Data), NEW t \in Nat, NEW n \in Nat,
                    t + n <= Len(s), DOMAIN b \subseteq Nat
             PROVE  Memcpy(Memcpy(b, 0, SubSeq(s, 1, t)), t, SubSeq(s, t + 1, t + n))
                      = Memcpy(b, 0, SubSeq(s, 1, t + n))
  OBVIOUS
<1> DEFINE p == SubSeq(s, 1, t)
           q == SubSeq(s, t + 1, t + n)
           r == SubSeq(s, 1, t + n)
           l == Memcpy(Memcpy(b, 0, p), t, q)
           h == Memcpy(b, 0, r)
<1>1. Len(p) = t /\ \A k \in 1 .. t : p[k] = s[k]
  BY Pieces
<1>2. Len(q) = n /\ \A k \in 1 .. n : q[k] = s[t + k]
  BY Pieces
<1>3. Len(r) = t + n /\ \A k \in 1 .. t + n : r[k] = s[k]
  BY Pieces
<1>4. DOMAIN l = DOMAIN b /\ DOMAIN h = DOMAIN b
  BY DEF Memcpy
<1>5. ASSUME NEW i \in DOMAIN b PROVE l[i] = h[i]
  <2> HIDE DEF p, q, r
  <2>1. Memcpy(b, 0, p)[i] = IF i \in 1 .. t THEN s[i] ELSE b[i]
    BY <1>1 DEF Memcpy
  <2>2. l[i] = IF i \in t + 1 .. t + n THEN s[i] ELSE Memcpy(b, 0, p)[i]
    BY <1>2 DEF Memcpy
  <2>3. h[i] = IF i \in 1 .. t + n THEN s[i] ELSE b[i]
    BY <1>3 DEF Memcpy
  <2> QED
    BY <2>1, <2>2, <2>3
<1>6. l = h
  BY <1>4, <1>5 DEF Memcpy
<1> QED
  BY <1>6

\* The same for pieces that are appended.
LEMMA AppendMore ==
  \A b, s \in Seq(Data), t, n \in Nat :
    t + n <= Len(s) =>
      (b \o SubSeq(s, 1, t)) \o SubSeq(s, t + 1, t + n) = b \o SubSeq(s, 1, t + n)
<1> SUFFICES ASSUME NEW b \in Seq(Data), NEW s \in Seq(Data), NEW t \in Nat, NEW n \in Nat,
                    t + n <= Len(s)
             PROVE  (b \o SubSeq(s, 1, t)) \o SubSeq(s, t + 1, t + n)
                      = b \o SubSeq(s, 1, t + n)
  OBVIOUS
<1> DEFINE p == SubSeq(s, 1, t)
           q == SubSeq(s, t + 1, t + n)
<1>1. p \in Seq(Data) /\ q \in Seq(Data)
  BY Pieces
<1>2. p \o q = SubSeq(s, 1, t + n)
  BY ConcatAdjacentSubSeq
<1> HIDE DEF p, q
<1>3. (b \o p) \o q = b \o (p \o q)
  BY <1>1, ConcatAssociative
<1> QED
  BY <1>2, <1>3 DEF p, q

\* Nothing is copied.
LEMMA MemcpyNothing ==
  ASSUME NEW S, NEW s \in Seq(S), NEW n \in Nat, NEW f
  PROVE  Memcpy(Resized(f, n), 0, SubSeq(s, 1, 0)) = Resized(f, n)
  BY DEF Memcpy, Resized

\* A content is a sequence of its length.
LEMMA ContentSeq ==
  ASSUME NEW who, NEW sizes \in SUBSET Nat, NEW s \in Contents(who, sizes)
  PROVE  s \in Seq({who} \X Nat) /\ Len(s) \in Nat
<1>1. PICK n \in sizes : s = [i \in 1 .. n |-> <<who, i>>]
  BY DEF Contents, ContentOf
<1>2. s \in [1 .. n -> {who} \X Nat]
  BY <1>1
<1> QED
  BY <1>2

\* Nothing has been sent.
LEMMA StreamInit == StreamAssumption /\ Init => StreamInv
<1> SUFFICES ASSUME StreamAssumption, Init PROVE StreamInv
  OBVIOUS
<1>1. Len(source) \in Nat
  BY ContentSeq DEF Init, StreamAssumption
<1>2. All \in Nat
  BY <1>1, Layout DEF All
<1> /\ kind \in {"put", "winPut", "get", "winGet", "md5"}
    /\ sPc \in {"hash", "chunks", "open"} /\ (sPc = "chunks" <=> kind = "md5")
    /\ rPc = IF kind = "md5" THEN "done" ELSE "nameLen"
    /\ sent = 0 /\ rcvd = 0 /\ total = 0 /\ fileSize = 0 /\ cut = FALSE
  BY DEF Init, Uploads, Downloads
<1>3. StreamType
  BY <1>1 DEF StreamType, SenderPc, ReceiverPc, Uploads, Downloads
<1>4. SenderInv
  BY <1>2 DEF SenderInv
<1>5. ReceiverInv
  BY Layout DEF ReceiverInv
<1> QED
  BY <1>3, <1>4, <1>5 DEF StreamInv

\* The sender's steps before it sends.
LEMMA PrepareKeeps ==
  ASSUME StreamAssumption, StreamInv, Hash \/ HashChunk \/ Edit \/ Open
  PROVE  StreamInv'
<1>1. /\ UNCHANGED <<kind, sent, cut, rPc, total, rcvd, fileSize>>
      /\ sPc \in {"hash", "chunks", "open"}
      /\ \/ sPc' = sPc
         \/ sPc = "chunks" /\ sPc' = "closed"
         \/ sPc # "chunks" /\ sPc' \in {"open", "send"}
  BY DEF Hash, HashChunk, Edit, Open, receiverVars, senderVars
<1>2. Len(source') \in Nat
  <2>1. CASE Edit
    BY <2>1, ContentSeq DEF Edit, StreamAssumption
  <2>2. CASE Hash \/ HashChunk \/ Open
    BY <2>2 DEF Hash, HashChunk, Open, StreamInv, StreamType
  <2> QED
    BY <2>1, <2>2
<1>3. All' \in Nat /\ 0 < All'
  BY <1>2, Layout DEF All
<1>4. sent = 0 /\ rcvd = 0
  BY <1>1 DEF StreamInv, StreamType, SenderInv, ReceiverInv
<1>5. StreamType'
  BY <1>1, <1>2 DEF StreamInv, StreamType, SenderPc
<1>6. SenderInv'
  BY <1>1, <1>3, <1>4 DEF StreamInv, SenderInv
<1>7. ReceiverInv'
  BY <1>1, <1>4, Layout DEF StreamInv, SenderInv, ReceiverInv
<1> QED
  BY <1>5, <1>6, <1>7 DEF StreamInv

\* A sender that goes on, or stops.
LEMMA SenderKeeps ==
  ASSUME StreamAssumption, StreamInv, Send \/ Die
  PROVE  StreamInv'
<1>1. UNCHANGED <<kind, source, rPc, total, rcvd, fileSize>> /\ All' = All
  BY DEF Send, Die, receiverVars, All
<1>2. All \in Nat
  BY Layout DEF StreamInv, StreamType, All
<1>3. CASE Send
  <2>1. PICK n \in 1 .. All - sent :
          /\ sPc = "send" /\ sent' = sent + n
          /\ sPc' = IF sent + n = All THEN "closed" ELSE "send"
          /\ UNCHANGED cut
    BY <1>3 DEF Send, All
  <2>2. n \in Nat \ {0} /\ sent + n <= All /\ kind # "md5"
    BY <2>1, <1>2 DEF StreamInv, StreamType, SenderInv
  <2>3. StreamType' /\ SenderInv'
    BY <2>1, <2>2, <1>1, <1>2 DEF StreamInv, StreamType, SenderInv, SenderPc
  <2>4. ReceiverInv'
    BY <2>1, <2>2, <1>1, <1>2 DEF StreamInv, StreamType, ReceiverInv, Silent
  <2> QED
    BY <2>3, <2>4 DEF StreamInv
<1>4. CASE Die
  <2>1. sPc \in {"open", "send"} /\ sPc' = "closed" /\ cut' = TRUE /\ sent' = sent
    BY <1>4 DEF Die
  <2>2. StreamType' /\ SenderInv'
    BY <2>1, <1>1, <1>2 DEF StreamInv, StreamType, SenderInv, SenderPc
  <2>3. ReceiverInv'
    BY <2>1, <1>1 DEF StreamInv, SenderInv, ReceiverInv, Silent
  <2> QED
    BY <2>2, <2>3 DEF StreamInv
<1> QED
  BY <1>3, <1>4

\* What recv returns has been sent, and is no more than was asked for.
LEMMA TakenBound ==
  ASSUME StreamType, rcvd <= sent, NEW want \in Nat, NEW n \in Taken(want)
  PROVE  n \in Nat \ {0} /\ n <= want /\ rcvd + n <= sent
  BY DEF StreamType, Taken

\* A header field, or the part of it that has arrived.
LEMMA HeaderKeeps ==
  ASSUME StreamAssumption, StreamInv, RecvHeader
  PROVE  StreamInv'
<1>1. UNCHANGED <<kind, source, sPc, sent, cut>> /\ All' = All /\ rPc \in DOMAIN After
  BY DEF RecvHeader, senderVars, All
<1>2. PICK n \in Taken(Width[rPc] - total) :
        /\ rcvd' = rcvd + n
        /\ \/ total + n < Width[rPc] /\ total' = total + n /\ UNCHANGED <<rPc, fileSize>>
           \/ /\ total + n >= Width[rPc] /\ total' = 0
              /\ IF rPc = "size" THEN Begin(file, Len(source))
                                 ELSE rPc' = After[rPc] /\ UNCHANGED fileSize
  BY DEF RecvHeader
<1>3. /\ total < Width[rPc] /\ rcvd = Start[rPc] + total /\ rcvd <= sent
      /\ kind # "md5"
  BY <1>1, Layout DEF StreamInv, ReceiverInv
<1> sent \in Nat /\ rcvd \in Nat /\ total \in Nat /\ StreamType
  BY DEF StreamInv, StreamType
<1> /\ Width[rPc] \in Nat /\ Start[rPc] \in Nat
    /\ Start[After[rPc]] = Start[rPc] + Width[rPc]
  BY <1>1, Layout
<1> Width[rPc] - total \in Nat
  BY <1>3
<1>4. n \in Nat \ {0} /\ rcvd + n <= sent /\ total + n <= Width[rPc]
  <2>1. n \in Nat \ {0} /\ n <= Width[rPc] - total /\ rcvd + n <= sent
    BY <1>2, <1>3, TakenBound
  <2>2. \A wide \in Nat : n <= wide - total => total + n <= wide
    BY <2>1
  <2> QED
    BY <2>1, <2>2
<1>5. sPc \in {"send", "closed"}
  BY <1>3, <1>4 DEF StreamInv, StreamType, SenderInv
<1>6. SenderInv' /\ rcvd' <= sent' /\ rcvd' \in Nat
  <2>1. rcvd' <= sent' /\ rcvd' \in Nat
    BY <1>1, <1>2, <1>4
  <2>2. SenderInv'
    BY <1>1 DEF StreamInv, SenderInv
  <2> QED
    BY <2>1, <2>2
<1>7. CASE total + n < Width[rPc] /\ total' = total + n /\ UNCHANGED <<rPc, fileSize>>
  <2>1. rcvd' = Start[rPc'] + total'
    <3> DEFINE d == Start[rPc]
    <3>1. rcvd = d + total /\ rcvd' = rcvd + n /\ d \in Nat /\ total \in Nat /\ n \in Nat
      BY <1>2, <1>3, <1>4
    <3> HIDE DEF d
    <3>2. rcvd' = d + (total + n)
      BY <3>1
    <3> QED
      BY <1>7, <3>2 DEF d
  <2>2. StreamType'
    BY <1>1, <1>6, <1>7, <1>4 DEF StreamType
  <2>3. ReceiverInv'
    BY <2>1, <1>1, <1>3, <1>6, <1>7, Layout DEF StreamInv, ReceiverInv
  <2> QED
    BY <2>2, <2>3, <1>6 DEF StreamInv
<1>8. CASE /\ total + n = Width[rPc] /\ total' = 0
           /\ rPc # "size" /\ rPc' = After[rPc] /\ UNCHANGED fileSize
  <2>1. /\ rPc' \in DOMAIN After /\ rcvd' = Start[rPc'] + total'
        /\ total' < Width[rPc'] /\ rPc' \notin {"data", "done"}
    BY <1>1, <1>2, <1>3, <1>4, <1>8, Layout
  <2>2. StreamType'
    BY <2>1, <1>1, <1>6, <1>8, Layout DEF StreamType, ReceiverPc
  <2>3. ReceiverInv'
    BY <2>1, <1>3, <1>6, <1>1 DEF ReceiverInv
  <2> QED
    BY <2>2, <2>3, <1>6 DEF StreamInv
<1>9. CASE /\ total + n = Width[rPc] /\ total' = 0
           /\ rPc = "size" /\ Begin(file, Len(source))
  <2>1. rcvd' = Start.data
    <3>1. rcvd' = Start[rPc] + Width[rPc]
      BY <1>2, <1>3, <1>4, <1>9
    <3> QED
      BY <3>1, <1>9, Layout
  <2>2. /\ rPc' = IF Len(source) = 0 THEN "done" ELSE "data"
        /\ fileSize' \in {Len(source), -1} /\ (Len(source) # 0 => fileSize' = Len(source))
        /\ rPc' \notin DOMAIN After
    BY <1>9, Layout DEF Begin
  <2>3. StreamType'
    BY <2>2, <1>1, <1>6, <1>9 DEF StreamInv, StreamType, ReceiverPc
  <2>4. ReceiverInv'
    <3>1. rcvd' = Start.data + total' /\ Start.data \in Nat /\ Len(source) \in Nat
      BY <2>1, <1>9, Layout DEF StreamType
    <3>2. rPc' = "done" => rcvd' = All
      BY <3>1, <2>2, <1>9 DEF All
    <3>3. rPc' = "data" => total' < fileSize' /\ fileSize' = Len(source')
      BY <3>1, <2>2, <1>1, <1>9
    <3> QED
      BY <3>1, <3>2, <3>3, <2>2, <1>1, <1>3, <1>5, <1>6 DEF ReceiverInv
  <2> QED
    BY <2>3, <2>4, <1>6 DEF StreamInv
<1>10. total + n >= Width[rPc] => total + n = Width[rPc]
  BY <1>4
<1> QED
  BY <1>2, <1>7, <1>8, <1>9, <1>10

\* Bytes of the content.
LEMMA DataKeeps ==
  ASSUME StreamAssumption, StreamInv, RecvData
  PROVE  StreamInv'
<1>1. /\ UNCHANGED <<kind, source, sPc, sent, cut, fileSize>> /\ All' = All
      /\ rPc = "data"
  BY DEF RecvData, senderVars, All
<1>0. /\ sent \in Nat /\ rcvd \in Nat /\ total \in Nat /\ fileSize \in Int /\ StreamType
      /\ total < fileSize /\ rcvd <= sent
      /\ (rcvd = Start.data + total /\ fileSize = Len(source)) \/ Silent
      /\ sPc \in {"send", "closed"} /\ kind # "md5" /\ "data" \notin DOMAIN After
      /\ "done" \notin DOMAIN After
  BY <1>1, Layout DEF StreamInv, StreamType, ReceiverInv
<1>2. PICK n \in Taken(fileSize - total) :
        /\ rcvd' = rcvd + n /\ total' = total + n
        /\ rPc' = IF total + n < fileSize THEN "data" ELSE "done"
  BY DEF RecvData
<1>3. n \in Nat \ {0} /\ n <= fileSize - total /\ rcvd + n <= sent
  BY <1>0, TakenBound
<1>4. rcvd = Start.data + total /\ fileSize = Len(source) /\ Start.data \in Nat
  <2>1. rcvd # sent
    BY <1>0, <1>3
  <2>2. Start.data \in Nat
    BY Layout
  <2> QED
    BY <1>0, <2>1, <2>2 DEF Silent
<1>5. StreamType' /\ SenderInv'
  BY <1>0, <1>1, <1>2, <1>3 DEF StreamInv, StreamType, SenderInv, ReceiverPc
<1>6. rcvd' = Start.data + total' /\ rcvd' <= sent'
  <2> DEFINE d == Start.data
  <2>1. /\ rcvd = d + total /\ rcvd' = rcvd + n /\ total' = total + n /\ sent' = sent
        /\ d \in Nat /\ total \in Nat /\ n \in Nat /\ rcvd + n <= sent
    BY <1>0, <1>1, <1>2, <1>3, <1>4
  <2> HIDE DEF d
  <2>2. rcvd' = d + total' /\ rcvd' <= sent'
    BY <2>1
  <2> QED
    BY <2>2 DEF d
<1>7. rPc' = "done" => rcvd' = All
  <2>1. rPc' = "done" => total' = fileSize
    BY <1>0, <1>2, <1>3
  <2> QED
    BY <2>1, <1>4, <1>6 DEF All
<1>8. ReceiverInv'
  BY <1>0, <1>1, <1>2, <1>4, <1>6, <1>7 DEF ReceiverInv
<1> QED
  BY <1>5, <1>8 DEF StreamInv

\* Only a sender that was killed leaves a field unfinished.
LEMMA LostKeeps ==
  ASSUME StreamAssumption, StreamInv, LostHeader \/ LostData
  PROVE  StreamInv'
<1>1. /\ UNCHANGED <<kind, source, sPc, sent, cut, rcvd>> /\ All' = All
      /\ sPc = "closed" /\ rcvd = sent
  BY DEF LostHeader, LostData, Lost, senderVars, All
<1>2. SenderInv'
  BY <1>1 DEF StreamInv, SenderInv
<1>3. Len(source) \in Nat /\ Start.data \in Nat
  BY Layout DEF StreamInv, StreamType
<1>4. CASE LostHeader
  <2>1. /\ rPc \in DOMAIN After /\ total' = 0
        /\ \/ rPc' = "broken" /\ UNCHANGED fileSize
           \/ \E n \in 0 .. Len(source) : Begin(Created, n)
    BY <1>3, <1>4 DEF LostHeader
  <2>2. Silent
    <3>1. kind # "md5" /\ rcvd = Start[rPc] + total /\ total < Width[rPc]
      BY <2>1, Layout DEF StreamInv, ReceiverInv
    <3>2. rcvd < Start.data
      <4> DEFINE d == Start[rPc]
                 w == Width[rPc]
                 e == Start.data
      <4>1. /\ d \in Nat /\ w \in Nat /\ d + w <= e /\ e \in Nat /\ total \in Nat
            /\ total < w /\ rcvd = d + total
        BY <2>1, <3>1, Layout DEF StreamInv, StreamType
      <4> HIDE DEF d, w, e
      <4>2. rcvd < e
        BY <4>1
      <4> QED
        BY <4>2 DEF e
    <3>3. sent # All
      BY <1>1, <1>3, <3>2 DEF All, StreamInv, StreamType
    <3> QED
      BY <1>1, <3>1, <3>3 DEF StreamInv, SenderInv, Silent
  <2>3. /\ rPc' \in {"broken", "data", "done"} /\ fileSize' \in Int
        /\ rPc' = "data" => 0 < fileSize'
    BY <2>1, <1>3 DEF Begin, StreamInv, StreamType
  <2>4. rPc' \notin DOMAIN After /\ kind # "md5"
    BY <2>1, <2>3, Layout DEF StreamInv, ReceiverInv
  <2>5. StreamType'
    BY <1>1, <2>1, <2>3 DEF StreamInv, StreamType, ReceiverPc
  <2>6. ReceiverInv'
    BY <1>1, <2>1, <2>2, <2>3, <2>4 DEF StreamInv, ReceiverInv, Silent
  <2> QED
    BY <2>5, <2>6, <1>2 DEF StreamInv
<1>5. CASE LostData
  <2>1. rPc = "data" /\ rPc' \in {"spin", "done"} /\ UNCHANGED <<total, fileSize>>
    BY <1>5 DEF LostData
  <2>2. Silent
    <3>1. /\ total < fileSize /\ kind # "md5"
          /\ (rcvd = Start.data + total /\ fileSize = Len(source)) \/ Silent
      BY <2>1 DEF StreamInv, ReceiverInv
    <3>2. ASSUME ~Silent PROVE sent # All
      BY <1>1, <1>3, <3>1, <3>2 DEF All, StreamInv, StreamType
    <3> QED
      BY <1>1, <3>1, <3>2 DEF StreamInv, SenderInv, Silent
  <2>3. StreamType'
    BY <1>1, <2>1 DEF StreamInv, StreamType, ReceiverPc
  <2>4. ReceiverInv'
    BY <1>1, <2>1, <2>2, Layout DEF StreamInv, ReceiverInv, Silent
  <2> QED
    BY <2>3, <2>4, <1>2 DEF StreamInv
<1> QED
  BY <1>4, <1>5

\* The invariant holds of every behavior.
LEMMA StreamKept == ASSUME StreamAssumption PROVE Spec => []StreamInv
<1>1. Init => StreamInv
  BY StreamInit
<1>2. StreamInv /\ [Next]_vars => StreamInv'
  <2> SUFFICES ASSUME StreamInv, [Next]_vars PROVE StreamInv'
    OBVIOUS
  <2>1. CASE Next
    BY <2>1, PrepareKeeps, SenderKeeps, HeaderKeeps, DataKeeps, LostKeeps
    DEF Next, SendFile, RecvFile
  <2>2. CASE UNCHANGED vars
    BY <2>2 DEF vars, senderVars, receiverVars, StreamInv, StreamType, SenderInv,
                ReceiverInv, Silent, All
  <2> QED
    BY <2>1, <2>2
<1> QED
  BY <1>1, <1>2, PTL DEF Spec

(***************************************************************************)
(* For every width of the fields, size of the file and cutting of the      *)
(* stream by recv, recvCycle (recv_circle.c:3) stands where the sender put *)
(* the field that it reads, and leaves nothing behind.                     *)
(***************************************************************************)
THEOREM StreamAligned == Spec => []Aligned
<1>1. StreamInv => Aligned
  <2> SUFFICES ASSUME StreamInv PROVE Aligned
    OBVIOUS
  <2>1. rPc \in DOMAIN Start => rcvd = Start[rPc] + total \/ Silent
    BY StreamAssumption, Layout DEF StreamInv, ReceiverInv
  <2>2. rPc = "done" /\ kind # "md5" /\ ~cut => rcvd = Start.data + Len(source)
    BY DEF StreamInv, ReceiverInv, Silent, All
  <2> QED
    BY <2>1, <2>2 DEF Aligned, Silent
<1> QED
  BY <1>1, StreamAssumption, StreamKept, PTL

-----------------------------------------------------------------------------
(* Where the content goes. *)

\* The file as recvFile opens it.
Before == IF old = Absent THEN <<>> ELSE old

\* What is in the file until the content arrives, and then.
FileInv ==
  /\ source \in Seq(Data)
  /\ Before \in Seq(Data)
  /\ rPc \in {"nameLen", "name"} => file = old
  /\ rPc \in {"sizeLen", "size"} => file = Before
  /\ rPc \in {"data", "done", "spin"} /\ fileSize > 0 => total <= Len(source)
  /\ PrefixArrives

\* The receiver has the file it had before.
LEMMA FileInit == StreamAssumption /\ Init => FileInv
<1> SUFFICES ASSUME StreamAssumption, Init PROVE FileInv
  OBVIOUS
<1>1. source \in Seq(Data)
  <2>1. source \in Seq({"new"} \X Nat)
    BY ContentSeq DEF Init, StreamAssumption
  <2> QED
    BY <2>1, SeqMonotonic DEF Data
<1>2. Before \in Seq(Data)
  <2>1. CASE old = Absent
    BY <2>1 DEF Before
  <2>2. CASE old # Absent
    <3>1. old \in Contents("old", OtherSizes)
      BY <2>2 DEF Init
    <3>2. old \in Seq({"old"} \X Nat)
      BY <3>1, ContentSeq DEF StreamAssumption
    <3> QED
      BY <2>2, <3>2, SeqMonotonic DEF Data, Before
  <2> QED
    BY <2>1, <2>2
<1>3. rPc \in {"nameLen", "done"} /\ file = old /\ fileSize = 0
  BY DEF Init
<1> QED
  BY <1>1, <1>2, <1>3 DEF FileInv, PrefixArrives

\* Until the sender has sent anything the receiver has its own file.
LEMMA FileUntouched ==
  ASSUME StreamAssumption, StreamInv, FileInv,
         UNCHANGED <<receiverVars, old, kind>>,
         UNCHANGED source \/ (Edit /\ kind # "md5")
  PROVE  FileInv'
<1>1. UNCHANGED Before
  BY DEF Before
<1>2. CASE UNCHANGED source
  BY <1>1, <1>2 DEF FileInv, PrefixArrives, Partial, receiverVars
<1>3. CASE Edit /\ kind # "md5"
  <2>1. sPc = "open" /\ source' \in Contents("edited", OtherSizes)
    BY <1>3 DEF Edit
  <2>2. source' \in Seq(Data)
    <3>1. source' \in Seq({"edited"} \X Nat)
      BY <2>1, ContentSeq DEF StreamAssumption
    <3> QED
      BY <3>1, SeqMonotonic DEF Data
  <2>3. rPc \in DOMAIN After
    BY <1>3, <2>1 DEF StreamInv, ReceiverInv
  <2>4. rPc \notin {"data", "done", "spin"}
    BY <2>3, Layout
  <2> QED
    BY <1>1, <2>2, <2>4 DEF FileInv, PrefixArrives, receiverVars
<1> QED
  BY <1>2, <1>3

\* The file when its size is known and nothing of its content has come.
LEMMA BeginKeeps ==
  ASSUME StreamAssumption, FileInv, NEW n \in Nat, Begin(Before, n), total' = 0,
         UNCHANGED <<kind, source, old>>
  PROVE  FileInv'
<1>1. UNCHANGED Before
  BY DEF Before
<1>2. rPc' \in {"data", "done"}
  BY DEF Begin
<1>3. ASSUME fileSize' > 0 PROVE file' = Partial(total)'
  <2>1. fileSize' = n
    BY <1>3 DEF Begin
  <2>2. CASE kind = "winGet"
    <3>1. file' = Before
      BY <2>2 DEF Begin
    <3>2. Before \o SubSeq(source, 1, 0) = Before
      BY DEF FileInv
    <3> QED
      BY <2>2, <3>1, <3>2, <1>1 DEF Partial, Before
  <2>3. CASE kind # "winGet"
    <3>1. file' = Resized(Before, n)
      BY <2>3 DEF Begin
    <3>2. Memcpy(Resized(Before, n), 0, SubSeq(source, 1, 0)) = Resized(Before, n)
      BY MemcpyNothing DEF FileInv
    <3> QED
      BY <2>1, <2>3, <3>1, <3>2, <1>1 DEF Partial, Before
  <2> QED
    BY <2>2, <2>3
<1>4. 0 <= Len(source)
  BY DEF FileInv
<1> QED
  BY <1>1, <1>2, <1>3, <1>4 DEF FileInv, PrefixArrives

\* A header field, or its loss.
LEMMA HeaderKeepsFile ==
  ASSUME StreamAssumption, StreamInv, FileInv, RecvHeader \/ LostHeader
  PROVE  FileInv'
<1>1. UNCHANGED <<kind, source, old>> /\ UNCHANGED Before /\ rPc \in DOMAIN After
  BY DEF RecvHeader, LostHeader, Before
<1>2. Len(source) \in Nat /\ 0 .. Len(source) \subseteq Nat
  BY DEF FileInv
<1>3. Created = Before
  BY <1>1, Layout DEF FileInv, Created, Before
<1>4. CASE \E n \in Nat : Begin(Before, n) /\ total' = 0
  BY <1>1, <1>4, BeginKeeps
<1>5. CASE /\ rPc' \in {"nameLen", "name", "sizeLen", "size"}
           /\ rPc' \in {"nameLen", "name"} => file' = old
           /\ rPc' \in {"sizeLen", "size"} => file' = Before
  BY <1>1, <1>5 DEF FileInv, PrefixArrives
<1>6. CASE rPc' = "broken"
  BY <1>1, <1>6 DEF FileInv, PrefixArrives
<1>7. CASE RecvHeader
  <2>1. CASE UNCHANGED <<rPc, file>>
    BY <1>1, <1>5, <2>1, Layout DEF FileInv
  <2>2. CASE rPc = "size" /\ Begin(file, Len(source)) /\ total' = 0
    BY <1>2, <1>4, <2>2 DEF FileInv
  <2>3. CASE /\ rPc # "size" /\ rPc' = After[rPc]
             /\ file' = IF rPc = "name" THEN Created ELSE file
    BY <1>1, <1>3, <1>5, <2>3 DEF FileInv, After
  <2> QED
    BY <1>7, <2>1, <2>2, <2>3 DEF RecvHeader
<1>8. CASE LostHeader
  BY <1>2, <1>3, <1>4, <1>6, <1>8 DEF LostHeader
<1> QED
  BY <1>7, <1>8

\* What is placed next makes the prefix longer.
LEMMA PartialGrows ==
  ASSUME source \in Seq(Data), Before \in Seq(Data), total \in Nat, fileSize \in Int,
         file = Partial(total), NEW n \in Nat, total + n <= Len(source)
  PROVE  Placed(SubSeq(source, total + 1, total + n)) = Partial(total + n)
<1>1. CASE kind = "winGet"
  <2>1. (Before \o SubSeq(source, 1, total)) \o SubSeq(source, total + 1, total + n)
          = Before \o SubSeq(source, 1, total + n)
    BY AppendMore, Zenon
  <2> QED
    BY <1>1, <2>1 DEF Partial, Placed, Before
<1>2. CASE kind # "winGet"
  <2> DEFINE f == Resized(Before, fileSize)
  <2>1. DOMAIN f \subseteq Nat
    BY DEF Resized
  <2> HIDE DEF f
  <2>2. Memcpy(Memcpy(f, 0, SubSeq(source, 1, total)), total,
               SubSeq(source, total + 1, total + n))
          = Memcpy(f, 0, SubSeq(source, 1, total + n))
    BY <2>1, MemcpyMore, Zenon
  <2> QED
    BY <1>2, <2>2 DEF Partial, Placed, Before, f
<1> QED
  BY <1>1, <1>2

\* Bytes of the content go where the sender has them.
LEMMA DataKeepsFile ==
  ASSUME StreamAssumption, StreamInv, FileInv, RecvData
  PROVE  FileInv'
<1>1. UNCHANGED <<kind, source, old, fileSize>> /\ UNCHANGED Before /\ rPc = "data"
  BY DEF RecvData, Before
<1>2. PICK n \in Taken(fileSize - total) :
        /\ file' = Placed(SubSeq(source, rcvd - Start.data + 1, rcvd - Start.data + n))
        /\ total' = total + n /\ rPc' \in {"data", "done"}
  BY DEF RecvData
<1>3. /\ total \in Nat /\ fileSize \in Int /\ rcvd \in Nat /\ sent \in Nat
      /\ total < fileSize /\ rcvd <= sent /\ StreamType /\ Start.data \in Nat
      /\ (rcvd = Start.data + total /\ fileSize = Len(source)) \/ Silent
  BY <1>1, Layout DEF StreamInv, StreamType, ReceiverInv
<1>4. n \in Nat \ {0} /\ n <= fileSize - total /\ rcvd + n <= sent
  BY <1>3, TakenBound
<1>5. rcvd - Start.data = total /\ total + n <= Len(source)
  <2> DEFINE d == Start.data
             l == Len(source)
  <2>1. ~Silent
    BY <1>3, <1>4 DEF Silent
  <2>2. /\ rcvd = d + total /\ fileSize = l /\ n <= fileSize - total
        /\ d \in Nat /\ total \in Nat /\ n \in Nat /\ fileSize \in Int
    BY <2>1, <1>3, <1>4
  <2> HIDE DEF d, l
  <2>3. rcvd - d = total /\ total + n <= l
    BY <2>2
  <2> QED
    BY <2>3 DEF d, l
<1>6. file = Partial(total)
  BY <1>1, <1>3 DEF FileInv, PrefixArrives
<1>7. file' = Partial(total + n)
  <2>1. /\ source \in Seq(Data) /\ Before \in Seq(Data) /\ total \in Nat
        /\ n \in Nat /\ total + n <= Len(source) /\ fileSize \in Int
    BY <1>3, <1>4, <1>5 DEF FileInv
  <2>2. file' = Placed(SubSeq(source, total + 1, total + n))
    BY <1>2, <1>5
  <2> QED
    BY <2>1, <2>2, <1>6, PartialGrows
<1>8. Partial(total + n) = Partial(total)'
  BY <1>1, <1>2 DEF Partial, Before
<1> QED
  BY <1>1, <1>2, <1>5, <1>7, <1>8 DEF FileInv, PrefixArrives

\* Every step keeps the file as it should be.
LEMMA FileStep ==
  ASSUME StreamAssumption, StreamInv, FileInv, [Next]_vars
  PROVE  FileInv'
<1>1. CASE Hash \/ HashChunk \/ Open
  BY <1>1, FileUntouched DEF Hash, HashChunk, Open
<1>2. CASE Edit
  <2>1. kind # "md5"
    BY <1>2 DEF Edit, Uploads
  <2> QED
    BY <1>2, <2>1, FileUntouched DEF Edit
<1>3. CASE Send \/ Die
  BY <1>3, FileUntouched DEF Send, Die
<1>4. CASE RecvHeader \/ LostHeader
  BY <1>4, HeaderKeepsFile
<1>5. CASE RecvData
  BY <1>5, DataKeepsFile
<1>6. CASE LostData
  <2>1. /\ UNCHANGED <<kind, source, old, total, file, fileSize>> /\ UNCHANGED Before
        /\ rPc = "data" /\ rPc' \in {"spin", "done"}
    BY <1>6 DEF LostData, Before
  <2>2. UNCHANGED Partial(total)
    BY <2>1 DEF Partial, Before
  <2> QED
    BY <2>1, <2>2 DEF FileInv, PrefixArrives
<1>7. CASE UNCHANGED vars
  BY <1>7, FileUntouched DEF vars
<1> QED
  BY <1>1, <1>2, <1>3, <1>4, <1>5, <1>6, <1>7 DEF Next, SendFile, RecvFile

\* The invariant of the file holds of every behavior.
LEMMA FileKept == ASSUME StreamAssumption PROVE Spec => []FileInv
<1>1. Init => StreamInv /\ FileInv
  BY StreamInit, FileInit
<1>2. StreamInv /\ FileInv /\ [Next]_vars => FileInv'
  BY FileStep
<1>3. Spec => []StreamInv
  BY StreamKept
<1> QED
  BY <1>1, <1>2, <1>3, PTL DEF Spec

(***************************************************************************)
(* For files of every size, whatever was there before and wherever the     *)
(* sender is killed, what recvFile (send_recv_file.c of the server and the *)
(* clients) has written is a prefix of the sender's file, in its place.    *)
(***************************************************************************)
THEOREM StreamPrefix == Spec => []PrefixArrives
<1>1. FileInv => PrefixArrives
  BY DEF FileInv
<1> QED
  BY <1>1, StreamAssumption, FileKept, PTL
-----------------------------------------------------------------------------
(* Quotients and remainders. *)

\* A product grows with its factor.
LEMMA Multiples ==
  ASSUME NEW m \in Nat \ {0}, NEW p \in Int, NEW q \in Int, p < q
  PROVE  m * p + m <= m * q
<1>1. q - p >= 1 /\ q - p \in Int
  OBVIOUS
<1>2. m * (q - p) >= m
  BY <1>1
<1>3. m * (q - p) = m * q - m * p
  OBVIOUS
<1> QED
  BY <1>2, <1>3

\* Division with a remainder.
LEMMA Division ==
  ASSUME NEW a \in Int, NEW m \in Nat \ {0}
  PROVE  /\ a \div m \in Int /\ a % m \in 0 .. m - 1
         /\ a = m * (a \div m) + (a % m)
  OBVIOUS

\* There is one quotient and one remainder.
LEMMA DivisionIs ==
  ASSUME NEW a \in Int, NEW m \in Nat \ {0}, NEW q \in Int, NEW r \in 0 .. m - 1, a = m * q + r
  PROVE  a \div m = q /\ a % m = r
<1> DEFINE k == a \div m
           l == a % m
<1>1. k \in Int /\ l \in 0 .. m - 1 /\ a = m * k + l
  BY Division
<1> HIDE DEF k, l
<1>2. m * q \in Int /\ m * k \in Int
  BY <1>1
<1>3. ~(k < q)
  BY <1>1, <1>2, Multiples
<1>4. ~(q < k)
  BY <1>1, <1>2, Multiples
<1>5. k = q
  BY <1>1, <1>3, <1>4
<1>6. l = r
  BY <1>1, <1>2, <1>5
<1> QED
  BY <1>5, <1>6 DEF k, l

\* Multiplication distributes.
LEMMA Distributes ==
  ASSUME NEW m \in Int, NEW a \in Int, NEW b \in Int
  PROVE  m * (a + b) = m * a + m * b /\ m * (a - b) = m * a - m * b
  OBVIOUS

\* Only the remainder of a summand matters.
LEMMA SumModulo ==
  ASSUME NEW a \in Int, NEW b \in Int, NEW m \in Nat \ {0}
  PROVE  ((a % m) + b) % m = (a + b) % m
<1> DEFINE s == (a % m) + b
           k == a \div m
           l == s \div m
           r == s % m
<1>1. a % m \in Int /\ k \in Int /\ a = m * k + (a % m)
  BY Division
<1>2. s \in Int /\ a + b = m * k + s
  BY <1>1
<1>3. r \in 0 .. m - 1 /\ l \in Int /\ s = m * l + r
  BY <1>2, Division
<1>4. (a % m) + b = s
  OBVIOUS
<1>5. s % m = r
  OBVIOUS
<1> HIDE DEF s, k, l, r
<1>6. m * (l + k) = m * l + m * k /\ l + k \in Int
  BY <1>1, <1>3, Distributes
<1>7. a + b = m * (l + k) + r
  BY <1>1, <1>2, <1>3, <1>6
<1>8. (a + b) % m = r
  BY <1>3, <1>6, <1>7, DivisionIs
<1> QED
  BY <1>4, <1>5, <1>8

\* The bits of n bytes, as the two words of the count.
BitCount(n) == <<(n * Bits) % Word, ((n * Bits) \div Word) % Word>>

\* Counting n more bytes counts the bits of all of them: the carry out of
\* count[0] goes into count[1] (md5.c:29-33).
LEMMA CountAdds ==
  ASSUME NEW l \in Nat, NEW n \in Nat
  PROVE  Count(BitCount(l), n) = BitCount(l + n)
<1> DEFINE N == l * Bits
           D == n * Bits
           low == D % Word
           sum == ((N % Word) + low) % Word
           carry == IF sum < low THEN 1 ELSE 0
<1>1. Word \in Nat \ {0} /\ Bits \in Nat /\ N \in Nat /\ D \in Nat /\ (l + n) * Bits = N + D
  BY Md5Assumption
<1>2. Count(BitCount(l), n) = <<sum, ((((N \div Word) % Word) + carry) + (D \div Word)) % Word>>
  BY DEF Count, BitCount
<1>3. BitCount(l + n) = <<(N + D) % Word, ((N + D) \div Word) % Word>>
  BY <1>1 DEF BitCount
<1> HIDE DEF N, D
<1> DEFINE n1 == N \div Word
           n0 == N % Word
           d1 == D \div Word
<1>4. n1 \in Int /\ n0 \in 0 .. Word - 1 /\ N = Word * n1 + n0
  BY <1>1, Division
<1>5. d1 \in Int /\ low \in 0 .. Word - 1 /\ D = Word * d1 + low
  BY <1>1, Division
<1>6. sum = (n0 + low) % Word
  OBVIOUS
<1> HIDE DEF n1, n0, d1, low, sum
<1>7. CASE n0 + low < Word
  <2>1. sum = n0 + low
    BY <1>1, <1>4, <1>5, <1>6, <1>7, DivisionIs, Word * 0 = 0
  <2>2. carry = 0
    BY <1>4, <1>5, <2>1
  <2>3. N + D = Word * (n1 + d1) + sum /\ n1 + d1 \in Int /\ sum \in 0 .. Word - 1
    BY <1>1, <1>4, <1>5, <1>7, <2>1
  <2>4. (N + D) % Word = sum /\ (N + D) \div Word = n1 + d1
    BY <1>1, <2>3, DivisionIs
  <2>5. ((n1 % Word) + d1) % Word = (n1 + d1) % Word
    BY <1>1, <1>4, <1>5, SumModulo
  <2>6. n1 % Word \in Int
    BY <1>1, <1>4, Division
  <2>7. ((n1 % Word) + 0) + d1 = (n1 % Word) + d1
    BY <1>5, <2>6
  <2> QED
    BY <1>2, <1>3, <2>2, <2>4, <2>5, <2>7 DEF n1, d1, low, sum
<1>8. CASE n0 + low >= Word
  <2>1. n0 + low = Word * 1 + (n0 + low - Word) /\ n0 + low - Word \in 0 .. Word - 1
    BY <1>1, <1>4, <1>5, <1>8
  <2>2. sum = n0 + low - Word
    BY <1>1, <1>4, <1>5, <1>6, <2>1, DivisionIs
  <2>3. carry = 1
    BY <1>1, <1>4, <1>5, <2>2
  <2>4. N + D = Word * (n1 + d1 + 1) + sum /\ n1 + d1 + 1 \in Int /\ sum \in 0 .. Word - 1
    BY <1>1, <1>4, <1>5, <2>1, <2>2
  <2>5. (N + D) % Word = sum /\ (N + D) \div Word = n1 + d1 + 1
    BY <1>1, <2>4, DivisionIs
  <2>6. ((n1 % Word) + (1 + d1)) % Word = (n1 + (1 + d1)) % Word
    <3>1. 1 + d1 \in Int
      BY <1>5
    <3> QED
      BY <1>1, <1>4, <3>1, SumModulo
  <2>7. n1 % Word \in Int
    BY <1>1, <1>4, Division
  <2>8. ((n1 % Word) + 1) + d1 = (n1 % Word) + (1 + d1) /\ n1 + (1 + d1) = n1 + d1 + 1
    BY <1>4, <1>5, <2>7
  <2> QED
    BY <1>2, <1>3, <2>3, <2>5, <2>6, <2>8 DEF n1, d1, low, sum
<1> QED
  BY <1>4, <1>5, <1>7, <1>8, <1>1

\* count[0] alone, though it wraps, says how many bytes of the last block wait
\* in the buffer (md5.c:27), since a word counts whole blocks.
LEMMA IndexIs ==
  ASSUME NEW l \in Nat
  PROVE  ((((l * Bits) % Word) \div Bits) % BlockSize) = l % BlockSize
<1> DEFINE N == l * Bits
           q == N \div Word
           r == N % Word
           k == Word \div (BlockSize * Bits)
           e == k * q
           j == l - BlockSize * e
<1>1. /\ Bits \in Nat \ {0} /\ BlockSize \in Nat \ {0} /\ Word \in Nat \ {0} /\ N \in Nat
      /\ BlockSize * Bits \in Nat \ {0} /\ Word % (BlockSize * Bits) = 0
  BY Md5Assumption
<1>2. q \in Int /\ r \in 0 .. Word - 1 /\ N = Word * q + r
  BY <1>1, Division
<1>3. k \in Int /\ Word = (BlockSize * Bits) * k
  <2> DEFINE u == BlockSize * Bits
  <2>1. u \in Nat \ {0} /\ Word % u = 0 /\ k = Word \div u
    BY <1>1
  <2> HIDE DEF u, k
  <2>2. k \in Int /\ Word = u * k + (Word % u)
    BY <1>1, <2>1, Division
  <2>3. u * k \in Int
    BY <2>1, <2>2
  <2>4. Word = u * k
    BY <2>1, <2>2, <2>3
  <2> QED
    BY <2>2, <2>4 DEF u
<1> HIDE DEF k, q, r
<1>4. e \in Int /\ j \in Int
  BY <1>1, <1>2, <1>3
<1>5. r = Bits * j + 0
  <2>1. Word * q = (BlockSize * Bits) * e
    BY <1>1, <1>2, <1>3
  <2>2. (BlockSize * Bits) * e = Bits * (BlockSize * e)
    BY <1>1, <1>4
  <2>3. Bits * j = Bits * l - Bits * (BlockSize * e) /\ BlockSize * e \in Int
    BY <1>1, <1>4, Distributes
  <2>4. Bits * l = N /\ Bits * (BlockSize * e) \in Int /\ Bits * j \in Int /\ Word * q \in Int
    BY <1>1, <1>2, <1>4, <2>3
  <2> DEFINE t == Word * q
             v == Bits * (BlockSize * e)
             z == Bits * j
             y == Bits * l
  <2>5. t = v /\ z = y - v /\ y = N /\ N = t + r /\ t \in Int /\ v \in Int /\ z \in Int
    BY <1>2, <2>1, <2>2, <2>3, <2>4
  <2> HIDE DEF N, j, t, v, z, y
  <2>6. r = z + 0
    BY <1>1, <1>2, <2>5
  <2> QED
    BY <2>6 DEF z
<1>6. r \div Bits = j
  BY <1>1, <1>2, <1>4, <1>5, DivisionIs
<1> DEFINE x == l % BlockSize
           y == l \div BlockSize
<1>7. x \in 0 .. BlockSize - 1 /\ y \in Int /\ l = BlockSize * y + x
  BY <1>1, Division
<1> HIDE DEF x, y
<1>8. j = BlockSize * (y - e) + x /\ y - e \in Int
  BY <1>1, <1>4, <1>7
<1> HIDE DEF j, e
<1>9. j % BlockSize = x
  BY <1>1, <1>4, <1>7, <1>8, DivisionIs
<1> QED
  BY <1>6, <1>9 DEF r, x

-----------------------------------------------------------------------------
(* The digest of a file that is read in pieces.  HasRead is what MD5Update *)
(* keeps: whatever the pieces are, the context is that of all their bytes. *)

\* What MD5Update has been given is in the context: the bits are counted, the
\* complete blocks are compressed, and the rest waits in the buffer.
HasRead(ctx, bytes) ==
  /\ ctx = [count |-> ctx.count, state |-> ctx.state, buffer |-> ctx.buffer]
  /\ ctx.count = BitCount(Len(bytes))
  /\ ctx.state = Blocks(bytes)
  /\ DOMAIN ctx.buffer = 1 .. BlockSize
  /\ \A i \in 1 .. Len(bytes) % BlockSize :
       ctx.buffer[i] = bytes[(Len(bytes) - (Len(bytes) % BlockSize)) + i]

\* A block is the BlockSize bytes at its place.
LEMMA BlockIs ==
  ASSUME NEW S, NEW s \in Seq(S), NEW f \in Nat, f + BlockSize <= Len(s)
  PROVE  /\ BlockAt(s, f) = [k \in 1 .. BlockSize |-> s[f + k]]
         /\ BlockAt(s, f) \in Seq(S)
<1>1. BlockSize \in Nat /\ f + 1 \in Nat \ {0} /\ f + BlockSize \in Nat
  BY Md5Assumption
<1> DEFINE b == BlockAt(s, f)
<1>2. b = SubSeq(s, f + 1, f + BlockSize)
  BY DEF BlockAt
<1> DEFINE i == f + 1
           j == f + BlockSize
<1>3. i \in Nat \ {0} /\ j \in Nat /\ i <= j + 1 /\ j <= Len(s) /\ b = SubSeq(s, i, j)
  BY <1>1, <1>2
<1> HIDE DEF i, j, b
<1>4. b \in Seq(S) /\ Len(b) = j - i + 1 /\ \A k \in 1 .. j - i + 1 : b[k] = s[i + k - 1]
  BY <1>3, Pieces
<1>5. Len(b) = BlockSize /\ \A k \in 1 .. BlockSize : b[k] = s[f + k]
  <2>1. j - i + 1 = BlockSize
    BY <1>1 DEF i, j
  <2>2. \A k \in 1 .. BlockSize : i + k - 1 = f + k
    BY <1>1 DEF i
  <2> QED
    BY <1>4, <2>1, <2>2
<1>6. DOMAIN b = 1 .. BlockSize
  BY <1>4, <1>5, LenProperties
<1>7. b = [k \in DOMAIN b |-> b[k]]
  BY <1>4
<1>8. b = [k \in 1 .. BlockSize |-> s[f + k]]
  BY <1>5, <1>6, <1>7
<1> QED
  BY <1>4, <1>8 DEF b

\* Blocks of the same bytes are the same.
LEMMA SameBlock ==
  ASSUME NEW S, NEW s \in Seq(S), NEW t \in Seq(S), NEW f \in Nat, NEW g \in Nat,
         f + BlockSize <= Len(s), g + BlockSize <= Len(t),
         \A i \in 1 .. BlockSize : s[f + i] = t[g + i]
  PROVE  BlockAt(s, f) = BlockAt(t, g)
<1>1. BlockAt(s, f) = [i \in 1 .. BlockSize |-> s[f + i]]
  BY BlockIs
<1>2. BlockAt(t, g) = [i \in 1 .. BlockSize |-> t[g + i]]
  BY BlockIs
<1> QED
  BY <1>1, <1>2

\* Where a block starts.
Place(k) == (k - 1) * BlockSize

\* The first j blocks are the first j * BlockSize bytes.
LEMMA PlaceIs ==
  ASSUME NEW j \in Nat
  PROVE  /\ Place(j + 1) = BlockSize * j /\ Place(j + 1) \in Nat
         /\ \A k \in 1 .. j : Place(k) \in Nat /\ Place(k) + BlockSize <= BlockSize * j
<1>1. BlockSize \in Nat \ {0}
  BY Md5Assumption
<1>2. ASSUME NEW k \in Nat \ {0}
      PROVE  Place(k) = BlockSize * (k - 1) /\ Place(k) \in Nat
  <2>1. k - 1 \in Nat
    OBVIOUS
  <2> QED
    BY <1>1, <2>1 DEF Place
<1>3. ASSUME NEW k \in 1 .. j PROVE Place(k) + BlockSize <= BlockSize * j
  <2>1. k - 1 \in Int /\ k - 1 < j
    OBVIOUS
  <2>2. BlockSize * (k - 1) + BlockSize <= BlockSize * j
    BY <1>1, <2>1, Multiples
  <2> QED
    BY <1>2, <2>2
<1>4. j + 1 \in Nat \ {0} /\ (j + 1) - 1 = j
  OBVIOUS
<1> QED
  BY <1>2, <1>3, <1>4

\* Places are equally far from each other.
LEMMA PlaceAdds ==
  ASSUME NEW j \in Nat, NEW k \in Nat \ {0}
  PROVE  Place(j + k) = BlockSize * j + Place(k)
<1>1. BlockSize \in Nat \ {0}
  BY Md5Assumption
<1>2. k - 1 \in Int /\ (j + k) - 1 = j + (k - 1)
  OBVIOUS
<1>3. BlockSize * (j + (k - 1)) = BlockSize * j + BlockSize * (k - 1)
  BY <1>1, <1>2, Distributes
<1>4. (j + (k - 1)) * BlockSize = BlockSize * (j + (k - 1)) /\ (k - 1) * BlockSize = BlockSize * (k - 1)
  BY <1>1, <1>2
<1> QED
  BY <1>2, <1>3, <1>4 DEF Place

\* The number of the complete blocks, and the blocks.
LEMMA BlocksAre ==
  ASSUME NEW S, NEW s \in Seq(S)
  PROVE  /\ Len(s) \div BlockSize \in Nat
         /\ Blocks(s) \in Seq(Seq(S)) /\ Len(Blocks(s)) = Len(s) \div BlockSize
         /\ \A k \in 1 .. Len(s) \div BlockSize :
              /\ Place(k) \in Nat /\ Place(k) + BlockSize <= Len(s)
              /\ BlockAt(s, Place(k)) \in Seq(S)
              /\ Blocks(s)[k] = BlockAt(s, Place(k))
<1> DEFINE q == Len(s) \div BlockSize
           x == Len(s) % BlockSize
<1>1. BlockSize \in Nat \ {0} /\ Len(s) \in Nat
  BY Md5Assumption
<1>2. q \in Int /\ x \in 0 .. BlockSize - 1 /\ Len(s) = BlockSize * q + x
  BY <1>1, Division
<1>3. Blocks(s) = [k \in 1 .. q |-> BlockAt(s, Place(k))]
  BY DEF Blocks, Place
<1>4. q = Len(s) \div BlockSize
  OBVIOUS
<1> HIDE DEF q, x
<1>5. q \in Nat
  <2>1. BlockSize * 0 = 0 /\ BlockSize * q \in Int
    BY <1>1, <1>2
  <2>2. q < 0 => BlockSize * q + BlockSize <= BlockSize * 0
    BY <1>1, <1>2, Multiples
  <2>3. ~(q < 0)
    BY <1>1, <1>2, <2>1, <2>2
  <2> QED
    BY <1>2, <2>3
<1>6. \A k \in 1 .. q : Place(k) \in Nat /\ Place(k) + BlockSize <= Len(s)
  <2>1. \A k \in 1 .. q : Place(k) \in Nat /\ Place(k) + BlockSize <= BlockSize * q
    BY <1>5, PlaceIs
  <2>2. BlockSize * q \in Nat /\ BlockSize * q <= Len(s)
    BY <1>1, <1>2, <1>5
  <2> QED
    BY <1>1, <2>1, <2>2
<1>7. \A k \in 1 .. q : BlockAt(s, Place(k)) \in Seq(S)
  BY <1>6, BlockIs
<1>8. Blocks(s) \in Seq(Seq(S)) /\ Len(Blocks(s)) = q
  <2>1. Blocks(s) \in [1 .. q -> Seq(S)]
    BY <1>3, <1>7
  <2> QED
    BY <1>5, <2>1
<1> QED
  BY <1>3, <1>4, <1>5, <1>6, <1>7, <1>8

\* Initially nothing has been read.
LEMMA NothingRead == HasRead(MD5Init, <<>>)
<1>1. BlockSize \in Nat \ {0} /\ Bits \in Nat /\ Word \in Nat \ {0}
  BY Md5Assumption
<1>2. 0 \div BlockSize = 0 /\ 0 % BlockSize = 0 /\ 0 \div Word = 0 /\ 0 % Word = 0 /\ 0 * Bits = 0
  BY <1>1
<1>3. BitCount(0) = <<0, 0>>
  BY <1>2 DEF BitCount
<1>4. Blocks(<<>>) = <<>>
  BY <1>2 DEF Blocks
<1> QED
  BY <1>1, <1>2, <1>3, <1>4 DEF HasRead, MD5Init

\* The complete blocks of a prefix are blocks of the whole.
LEMMA BlocksOfPrefix ==
  ASSUME NEW S, NEW p \in Seq(S), NEW m \in Seq(S), Len(p) <= Len(m), \A i \in 1 .. Len(p) : m[i] = p[i],
         NEW k \in 1 .. Len(p) \div BlockSize
  PROVE  Blocks(p)[k] = BlockAt(m, Place(k))
<1>1. /\ Place(k) \in Nat /\ Place(k) + BlockSize <= Len(p)
      /\ Blocks(p)[k] = BlockAt(p, Place(k))
  BY BlocksAre
<1>2. BlockSize \in Nat /\ Len(m) \in Nat /\ Len(p) \in Nat
  BY Md5Assumption
<1>3. \A i \in 1 .. BlockSize : p[Place(k) + i] = m[Place(k) + i]
  BY <1>1, <1>2
<1>4. Place(k) + BlockSize <= Len(m)
  BY <1>1, <1>2
<1> QED
  BY <1>1, <1>3, <1>4, SameBlock

\* Two inputs in a row.
LEMMA Joined ==
  ASSUME NEW S, NEW p \in Seq(S), NEW d \in Seq(S)
  PROVE  /\ p \o d \in Seq(S) /\ Len(p \o d) = Len(p) + Len(d)
         /\ \A i \in 1 .. Len(p) : (p \o d)[i] = p[i]
         /\ \A i \in 1 .. Len(d) : (p \o d)[Len(p) + i] = d[i]
<1>1. p \o d \in Seq(S) /\ Len(p \o d) = Len(p) + Len(d)
  BY ConcatProperties
<1>2. \A i \in 1 .. Len(p) + Len(d) : (p \o d)[i] = IF i <= Len(p) THEN p[i] ELSE d[i - Len(p)]
  BY ConcatProperties
<1>3. Len(p) \in Nat /\ Len(d) \in Nat
  OBVIOUS
<1>4. \A i \in 1 .. Len(d) : /\ Len(p) + i \in 1 .. Len(p) + Len(d) /\ ~(Len(p) + i <= Len(p))
                             /\ (Len(p) + i) - Len(p) = i
  BY <1>3
<1>5. \A i \in 1 .. Len(p) : i \in 1 .. Len(p) + Len(d) /\ i <= Len(p)
  BY <1>3
<1> QED
  BY <1>1, <1>2, <1>4, <1>5

\* A context with another count.
LEMMA SetCount ==
  \A n, e, s, a : [[count |-> e, state |-> s, buffer |-> a] EXCEPT !.count = n]
                    = [count |-> n, state |-> s, buffer |-> a]
  OBVIOUS

\* A context with another buffer.
LEMMA SetBuffer ==
  \A b, e, s, a : [[count |-> e, state |-> s, buffer |-> a] EXCEPT !.buffer = b]
                    = [count |-> e, state |-> s, buffer |-> b]
  OBVIOUS

\* A context with another count and another buffer.
LEMMA SetCountAndBuffer ==
  ASSUME NEW c, NEW n, NEW b, NEW e, NEW s, NEW a, c = [count |-> e, state |-> s, buffer |-> a]
  PROVE  [c EXCEPT !.count = n, !.buffer = b] = [count |-> n, state |-> s, buffer |-> b]
<1>1. [c EXCEPT !.count = n, !.buffer = b] = [[c EXCEPT !.count = n] EXCEPT !.buffer = b]
  BY Zenon
<1>2. [c EXCEPT !.count = n] = [count |-> n, state |-> s, buffer |-> a]
  <2>1. [c EXCEPT !.count = n] = [[count |-> e, state |-> s, buffer |-> a] EXCEPT !.count = n]
    BY Zenon
  <2>2. [[count |-> e, state |-> s, buffer |-> a] EXCEPT !.count = n]
          = [count |-> n, state |-> s, buffer |-> a]
    BY SetCount, Zenon
  <2> QED
    BY <2>1, <2>2, Zenon
<1>3. [[count |-> n, state |-> s, buffer |-> a] EXCEPT !.buffer = b]
        = [count |-> n, state |-> s, buffer |-> b]
  BY SetBuffer, Zenon
<1> QED
  BY <1>1, <1>2, <1>3, Zenon

\* What the context says of the bytes that have been read.
LEMMA ReadSoFar ==
  ASSUME NEW S, NEW p \in Seq(S), NEW n \in Nat, NEW c, HasRead(c, p)
  PROVE  /\ Len(p) % BlockSize \in 0 .. BlockSize - 1 /\ Len(p) \div BlockSize \in Nat
         /\ Len(p) = BlockSize * (Len(p) \div BlockSize) + (Len(p) % BlockSize)
         /\ Index(c) = Len(p) % BlockSize
         /\ Count(c.count, n) = BitCount(Len(p) + n)
<1>1. BlockSize \in Nat \ {0} /\ Len(p) \in Nat
  BY Md5Assumption
<1>2. Len(p) \div BlockSize \in Nat
  BY BlocksAre
<1>3. /\ Len(p) % BlockSize \in 0 .. BlockSize - 1
      /\ Len(p) = BlockSize * (Len(p) \div BlockSize) + (Len(p) % BlockSize)
  BY <1>1, Division
<1>4. c.count[1] = (Len(p) * Bits) % Word
  BY DEF HasRead, BitCount
<1>5. Index(c) = Len(p) % BlockSize
  BY <1>1, <1>4, IndexIs DEF Index
<1>6. Count(c.count, n) = BitCount(Len(p) + n)
  BY <1>1, CountAdds DEF HasRead
<1> QED
  BY <1>2, <1>3, <1>5, <1>6

\* An input that does not complete a block waits in the buffer (md5.c:45-49).
LEMMA ReadPart ==
  ASSUME NEW S, NEW p \in Seq(S), NEW d \in Seq(S), NEW c, HasRead(c, p),
         Len(d) < BlockSize - (Len(p) % BlockSize)
  PROVE  HasRead(MD5Update(c, d), p \o d)
<1> DEFINE L == Len(p)
           n == Len(d)
           x == L % BlockSize
           q == L \div BlockSize
           m == p \o d
           f == Memcpy(c.buffer, x, d)
           u == MD5Update(c, d)
<1>1. L \in Nat /\ n \in Nat /\ BlockSize \in Nat \ {0} /\ BlockSize - x > n
  BY Md5Assumption
<1>2. x \in 0 .. BlockSize - 1 /\ q \in Nat /\ L = BlockSize * q + x /\ Index(c) = x
      /\ Count(c.count, n) = BitCount(L + n)
  BY <1>1, ReadSoFar
<1>3. m \in Seq(S) /\ Len(m) = L + n
      /\ (\A i \in 1 .. L : m[i] = p[i]) /\ (\A i \in 1 .. n : m[L + i] = d[i])
  BY Joined
<1>4. /\ c = [count |-> c.count, state |-> c.state, buffer |-> c.buffer]
      /\ c.state = Blocks(p) /\ DOMAIN c.buffer = 1 .. BlockSize
      /\ \A i \in 1 .. x : c.buffer[i] = p[(L - x) + i]
  BY DEF HasRead
<1>5. u = [count |-> Count(c.count, n), state |-> c.state, buffer |-> f]
  <2>1. ~(n >= BlockSize - x)
    BY <1>1, <1>2
  <2>2. u = [c EXCEPT !.count = Count(c.count, n), !.buffer = f]
    BY <1>2, <2>1 DEF MD5Update
  <2> HIDE DEF x, n, f, u
  <2> QED
    BY <1>4, <2>2, SetCountAndBuffer, Zenon
<1>6. \A k \in 1 .. q : Blocks(p)[k] = BlockAt(m, Place(k))
  <2>1. m \in Seq(S) /\ Len(p) <= Len(m) /\ \A i \in 1 .. Len(p) : m[i] = p[i]
    BY <1>1, <1>3
  <2> HIDE DEF m
  <2> QED
    BY <2>1, BlocksOfPrefix
<1>7. Blocks(p) \in Seq(Seq(S)) /\ Len(Blocks(p)) = q
  BY BlocksAre
<1>8. /\ Blocks(m) \in Seq(Seq(S)) /\ Len(Blocks(m)) = Len(m) \div BlockSize
      /\ \A k \in 1 .. Len(m) \div BlockSize : Blocks(m)[k] = BlockAt(m, Place(k))
  <2>1. m \in Seq(S)
    BY <1>3
  <2> HIDE DEF m
  <2> QED
    BY <2>1, BlocksAre
<1>9. f = [i \in 1 .. BlockSize |-> IF i \in x + 1 .. x + n THEN d[i - x] ELSE c.buffer[i]]
  BY <1>4 DEF Memcpy
<1> HIDE DEF L, n, x, q, m, f, u
<1>10. Len(m) \div BlockSize = q /\ Len(m) % BlockSize = x + n
  <2>1. /\ Len(m) = BlockSize * q + (x + n) /\ x + n \in 0 .. BlockSize - 1 /\ Len(m) \in Int
        /\ BlockSize \in Nat \ {0} /\ q \in Int
    BY <1>1, <1>2, <1>3
  <2> QED
    BY <2>1, DivisionIs
<1>11. Blocks(m) = Blocks(p)
  <2>1. \A k \in 1 .. q : Blocks(m)[k] = Blocks(p)[k]
    BY <1>6, <1>8, <1>10
  <2> QED
    BY <1>7, <1>8, <1>10, <2>1, SeqEqual
<1>12. ASSUME NEW i \in 1 .. x + n PROVE f[i] = m[(L - x) + i]
  <2>1. i \in 1 .. BlockSize
    BY <1>1, <1>2, <1>12
  <2>2. CASE i \in x + 1 .. x + n
    <3>1. i - x \in 1 .. n /\ L + (i - x) = (L - x) + i
      BY <1>1, <1>2, <2>2
    <3> QED
      BY <1>3, <1>9, <2>1, <2>2, <3>1
  <2>3. CASE i \in 1 .. x
    <3>1. (L - x) + i \in 1 .. L /\ i \notin x + 1 .. x + n
      <4>1. BlockSize * q \in Nat
        BY <1>1, <1>2
      <4> QED
        BY <1>1, <1>2, <2>3, <4>1
    <3> QED
      BY <1>3, <1>4, <1>9, <2>1, <2>3, <3>1
  <2> QED
    BY <1>1, <1>2, <1>12, <2>2, <2>3
<1>13. \A i \in 1 .. Len(m) % BlockSize : u.buffer[i] = m[(Len(m) - (Len(m) % BlockSize)) + i]
  <2>1. Len(m) - (Len(m) % BlockSize) = L - x
    BY <1>1, <1>2, <1>3, <1>10
  <2>2. u.buffer = f
    BY <1>5
  <2> QED
    BY <1>10, <1>12, <2>1, <2>2
<1>14. DOMAIN u.buffer = 1 .. BlockSize /\ u.count = BitCount(Len(m)) /\ u.state = Blocks(m)
       /\ u = [count |-> u.count, state |-> u.state, buffer |-> u.buffer]
  BY <1>2, <1>3, <1>4, <1>5, <1>9, <1>11
<1> QED
  BY <1>13, <1>14 DEF HasRead, u, m

\* The first w bytes of an input.
LEMMA FirstBytes ==
  ASSUME NEW S, NEW d \in Seq(S), NEW w \in Nat, w <= Len(d)
  PROVE  Len(SubSeq(d, 1, w)) = w /\ \A j \in 1 .. w : SubSeq(d, 1, w)[j] = d[j]
<1>1. /\ Len(SubSeq(d, 1, w)) = w - 1 + 1
      /\ \A k \in 1 .. w - 1 + 1 : SubSeq(d, 1, w)[k] = d[1 + k - 1]
  BY Pieces
<1>2. w - 1 + 1 = w /\ \A k \in 1 .. w : 1 + k - 1 = k
  OBVIOUS
<1> QED
  BY <1>1, <1>2

\* The last r bytes of an input.
LEMMA LastBytes ==
  ASSUME NEW S, NEW d \in Seq(S), NEW f \in Nat, NEW r \in Nat, f + r = Len(d)
  PROVE  /\ Len(SubSeq(d, f + 1, Len(d))) = r
         /\ \A j \in 1 .. r : SubSeq(d, f + 1, Len(d))[j] = d[f + j]
<1> DEFINE i == f + 1
           n == Len(d)
<1>1. i \in Nat \ {0} /\ n \in Nat /\ i <= n + 1 /\ n <= Len(d) /\ n - i + 1 = r
      /\ \A k \in 1 .. r : i + k - 1 = f + k
  OBVIOUS
<1> HIDE DEF i, n
<1>2. /\ Len(SubSeq(d, i, n)) = n - i + 1
      /\ \A k \in 1 .. n - i + 1 : SubSeq(d, i, n)[k] = d[i + k - 1]
  BY <1>1, Pieces
<1>3. Len(SubSeq(d, i, n)) = r /\ \A j \in 1 .. r : SubSeq(d, i, n)[j] = d[f + j]
  BY <1>1, <1>2
<1> QED
  BY <1>3 DEF i, n

\* A longer input completes the block that waits, is cut into blocks, and leaves
\* the rest in the buffer (md5.c:35-49).
LEMMA ReadBlocks ==
  ASSUME NEW S, NEW p \in Seq(S), NEW d \in Seq(S), NEW c, HasRead(c, p),
         Len(d) >= BlockSize - (Len(p) % BlockSize)
  PROVE  HasRead(MD5Update(c, d), p \o d)
<1> DEFINE B == BlockSize
           L == Len(p)
           n == Len(d)
           x == L % B
           q == L \div B
           m == p \o d
           w == B - x
           r == (n - w) % B
           more == (n - w) \div B
           first == Memcpy(c.buffer, x, SubSeq(d, 1, w))
           blocks == [k \in 1 .. more |-> BlockAt(d, w + Place(k))]
           rest == w + more * B
           last == SubSeq(d, rest + 1, n)
           f == Memcpy(first, 0, last)
           a == Append(Blocks(p), first)
           u == MD5Update(c, d)
<1>1. L \in Nat /\ n \in Nat /\ B \in Nat \ {0} /\ n >= w
  BY Md5Assumption
<1>2. x \in 0 .. B - 1 /\ q \in Nat /\ L = B * q + x /\ Index(c) = x
      /\ Count(c.count, n) = BitCount(L + n)
  BY <1>1, ReadSoFar
<1>3. m \in Seq(S) /\ Len(m) = L + n
      /\ (\A i \in 1 .. L : m[i] = p[i]) /\ (\A i \in 1 .. n : m[L + i] = d[i])
  BY Joined
<1>4. /\ c.state = Blocks(p) /\ DOMAIN c.buffer = 1 .. B
      /\ \A i \in 1 .. x : c.buffer[i] = p[(L - x) + i]
  BY DEF HasRead
<1>5. u = [count |-> Count(c.count, n), state |-> a \o blocks, buffer |-> f]
  BY <1>1, <1>2, <1>4 DEF MD5Update, MD5Transform, Place
<1>6. \A k \in 1 .. q : Blocks(p)[k] = BlockAt(m, Place(k))
  <2>1. m \in Seq(S) /\ Len(p) <= Len(m) /\ \A i \in 1 .. Len(p) : m[i] = p[i]
    BY <1>1, <1>3
  <2> HIDE DEF m
  <2> QED
    BY <2>1, BlocksOfPrefix
<1>7. Blocks(p) \in Seq(Seq(S)) /\ Len(Blocks(p)) = q
  BY BlocksAre
<1>8. /\ Blocks(m) \in Seq(Seq(S)) /\ Len(Blocks(m)) = Len(m) \div B
      /\ \A k \in 1 .. Len(m) \div B :
           /\ Place(k) \in Nat /\ Place(k) + B <= Len(m)
           /\ BlockAt(m, Place(k)) \in Seq(S) /\ Blocks(m)[k] = BlockAt(m, Place(k))
  <2>1. m \in Seq(S)
    BY <1>3
  <2> HIDE DEF m
  <2> QED
    BY <2>1, BlocksAre
<1>9. w \in 1 .. B /\ n - w \in Nat /\ w + x = B
  BY <1>1, <1>2
<1>10. r \in 0 .. B - 1 /\ more \in Nat /\ n - w = B * more + r /\ B * more \in Nat
  <2> HIDE DEF w, n
  <2> DEFINE e == n - w
  <2>0. e \in Int /\ r = e % B /\ more = e \div B
    BY <1>9
  <2> HIDE DEF e, r, more
  <2>1. r \in 0 .. B - 1 /\ more \in Int /\ e = B * more + r
    BY <1>1, <2>0, Division
  <2> USE DEF e
  <2> HIDE DEF r, more
  <2>2. B * 0 = 0 /\ B * more \in Int
    BY <1>1, <2>1
  <2>3. more < 0 => B * more + B <= B * 0
    BY <1>1, <2>1, Multiples
  <2>4. ~(more < 0)
    BY <1>1, <1>9, <2>1, <2>2, <2>3
  <2>5. more \in Nat
    BY <2>1, <2>4
  <2>6. B * more \in Nat
    BY <1>1, <2>5
  <2> QED
    BY <2>1, <2>5, <2>6
<1>11. first = [i \in 1 .. B |-> IF i \in x + 1 .. x + Len(SubSeq(d, 1, w)) THEN SubSeq(d, 1, w)[i - x] ELSE c.buffer[i]]
  BY <1>4 DEF Memcpy
<1>12. Len(SubSeq(d, 1, w)) = w /\ \A j \in 1 .. w : SubSeq(d, 1, w)[j] = d[j]
  <2>0. n = Len(d)
    OBVIOUS
  <2> HIDE DEF w, n
  <2>1. w \in Nat /\ w <= Len(d)
    BY <1>1, <1>9, <2>0
  <2> QED
    BY <2>1, FirstBytes
<1>13. rest \in Nat /\ rest + r = n
  <2> HIDE DEF more, w, r, n
  <2>1. more * B = B * more
    BY <1>1, <1>10
  <2> QED
    BY <1>1, <1>9, <1>10, <2>1
<1>14. Len(last) = r /\ \A j \in 1 .. r : last[j] = d[rest + j]
  <2>0. n = Len(d) /\ r \in Nat
    BY <1>1, <1>10
  <2> HIDE DEF r, rest, n
  <2> QED
    BY <2>0, <1>13, LastBytes
<1>15. f = [i \in DOMAIN first |-> IF i \in 0 + 1 .. 0 + Len(last) THEN last[i - 0] ELSE first[i]]
  BY DEF Memcpy
<1>16. /\ n = Len(d) /\ blocks = [k \in 1 .. more |-> BlockAt(d, w + Place(k))]
       /\ a = Append(Blocks(p), first)
  OBVIOUS
<1> HIDE DEF L, n, x, q, m, w, r, more, first, blocks, rest, last, f, a, u
<1>17. Len(m) \div B = (q + 1) + more /\ Len(m) % B = r
  <2>1. B * (q + 1) = B * q + B * 1 /\ B * ((q + 1) + more) = B * (q + 1) + B * more /\ B * 1 = B
    BY <1>1, <1>2, <1>10, Distributes
  <2>2. B * q \in Nat /\ (q + 1) + more \in Int /\ B * ((q + 1) + more) \in Int
    BY <1>1, <1>2, <1>10
  <2>3. Len(m) = B * ((q + 1) + more) + r /\ Len(m) \in Int
    <3> DEFINE t == B * ((q + 1) + more)
               v == B * q
               y == B * more
    <3>1. /\ t = (v + B) + y /\ L = v + x /\ n - w = y + r /\ w + x = B /\ Len(m) = L + n
          /\ v \in Nat /\ y \in Nat /\ x \in Nat /\ r \in Nat /\ w \in Nat
          /\ n \in Nat /\ B \in Nat
      BY <1>1, <1>2, <1>3, <1>9, <1>10, <2>1, <2>2
    <3> HIDE DEF t, v, y
    <3>2. Len(m) = t + r /\ Len(m) \in Int
      BY <3>1
    <3> QED
      BY <3>2 DEF t
  <2> QED
    BY <1>1, <1>10, <2>2, <2>3, DivisionIs
<1>18. first = BlockAt(m, Place(q + 1)) /\ first \in Seq(S)
  <2>1. Place(q + 1) = L - x /\ Place(q + 1) \in Nat /\ q + 1 \in 1 .. (q + 1) + more
    <3>1. Place(q + 1) = B * q /\ Place(q + 1) \in Nat
      BY <1>2, PlaceIs
    <3>2. B * q = L - x
      BY <1>1, <1>2, <3>1
    <3>3. q + 1 \in 1 .. (q + 1) + more
      BY <1>2, <1>10
    <3> QED
      BY <3>1, <3>2, <3>3
  <2>2. Place(q + 1) + B <= Len(m) /\ BlockAt(m, Place(q + 1)) \in Seq(S)
    BY <1>8, <1>17, <2>1
  <2>3. BlockAt(m, Place(q + 1)) = [i \in 1 .. B |-> m[Place(q + 1) + i]]
    BY <1>3, <2>1, <2>2, BlockIs
  <2>4. ASSUME NEW i \in 1 .. B PROVE first[i] = m[(L - x) + i]
    <3>1. first[i] = IF i \in x + 1 .. x + w THEN d[i - x] ELSE c.buffer[i]
      <4>1. i \in x + 1 .. x + w => i - x \in 1 .. w
        BY <1>1, <1>2, <1>9
      <4> QED
        BY <1>11, <1>12, <4>1
    <3>2. CASE i \in x + 1 .. x + w
      <4>1. i - x \in 1 .. n /\ L + (i - x) = (L - x) + i
        BY <1>1, <1>2, <1>9, <3>2
      <4> QED
        BY <1>3, <3>1, <3>2, <4>1
    <3>3. CASE i \in 1 .. x
      <4>1. (L - x) + i \in 1 .. L /\ i \notin x + 1 .. x + w
        BY <1>1, <1>2, <2>1, <3>3
      <4> QED
        BY <1>3, <1>4, <3>1, <3>3, <4>1
    <3> QED
      BY <1>1, <1>2, <1>9, <3>2, <3>3
  <2>5. first = [i \in 1 .. B |-> m[Place(q + 1) + i]]
    BY <1>11, <2>1, <2>4
  <2> QED
    BY <2>2, <2>3, <2>5
<1>19. ASSUME NEW k \in 1 .. more
       PROVE  /\ blocks[k] = BlockAt(m, Place((q + 1) + k)) /\ BlockAt(d, w + Place(k)) \in Seq(S)
              /\ (q + 1) + k \in 1 .. (q + 1) + more
  <2>1. Place(k) \in Nat /\ Place(k) + B <= B * more
    BY <1>10, PlaceIs
  <2>2. w + Place(k) \in Nat /\ (w + Place(k)) + B <= n
    <3> DEFINE z == Place(k)
               y == B * more
    <3>1. /\ z \in Nat /\ y \in Nat /\ w \in Nat /\ n \in Nat /\ r \in Nat /\ B \in Nat
          /\ z + B <= y /\ n - w = y + r
      BY <1>1, <1>9, <1>10, <2>1
    <3> HIDE DEF z, y
    <3>2. w + z \in Nat /\ (w + z) + B <= n
      BY <3>1
    <3> QED
      BY <3>2 DEF z
  <2>3. Place((q + 1) + k) = B * (q + 1) + Place(k)
    BY <1>2, <1>10, PlaceAdds
  <2>4. (q + 1) + k \in 1 .. (q + 1) + more
    BY <1>2, <1>10
  <2>5. Place((q + 1) + k) = L + (w + Place(k))
    <3>1. B * (q + 1) = B * q + B * 1 /\ B * 1 = B /\ B * q \in Nat
      BY <1>1, <1>2, Distributes
    <3>2. B * (q + 1) = L + w
      BY <1>1, <1>2, <1>9, <3>1
    <3> QED
      BY <1>1, <1>9, <2>1, <2>3, <3>2
  <2>6. Place((q + 1) + k) \in Nat /\ Place((q + 1) + k) + B <= Len(m)
    BY <1>8, <1>17, <2>4
  <2> DEFINE g == w + Place(k)
             h == Place((q + 1) + k)
  <2>7. g \in Nat /\ g + B <= Len(d) /\ h \in Nat /\ h + B <= Len(m) /\ h = L + g
    BY <1>16, <2>2, <2>5, <2>6
  <2>8. blocks[k] = BlockAt(d, g)
    BY <1>16, <2>2
  <2> HIDE DEF g, h
  <2>9. \A i \in 1 .. B : d[g + i] = m[h + i]
    <3> SUFFICES ASSUME NEW i \in 1 .. B PROVE d[g + i] = m[h + i]
      OBVIOUS
    <3>1. g + i \in 1 .. n /\ L + (g + i) = h + i
      BY <1>1, <1>16, <2>7
    <3> QED
      BY <1>3, <3>1
  <2>10. BlockAt(d, g) = BlockAt(m, h)
    BY <1>3, <2>7, <2>9, SameBlock
  <2>11. BlockAt(d, g) \in Seq(S)
    BY <2>7, BlockIs
  <2> QED
    BY <2>4, <2>8, <2>10, <2>11 DEF g, h
<1>20. u.state = Blocks(m)
  <2>1. blocks \in Seq(Seq(S)) /\ Len(blocks) = more
    <3> DEFINE F(k) == BlockAt(d, w + Place(k))
    <3>1. blocks = [k \in 1 .. more |-> F(k)] /\ \A k \in 1 .. more : F(k) \in Seq(S)
      BY <1>16, <1>19
    <3> HIDE DEF F
    <3>2. blocks \in [1 .. more -> Seq(S)]
      BY <3>1
    <3> QED
      BY <1>10, <3>2
  <2>2. a \in Seq(Seq(S)) /\ Len(a) = q + 1 /\ a[q + 1] = first /\ \A k \in 1 .. q : a[k] = Blocks(p)[k]
    <3>1. first \in Seq(S) /\ a = Append(Blocks(p), first)
      BY <1>16, <1>18
    <3> QED
      BY <1>7, <3>1, AppendProperties
  <2>3. \A k \in 1 .. q + 1 : a[k] = BlockAt(m, Place(k))
    <3>1. \A k \in 1 .. q + 1 : k \in 1 .. q \/ k = q + 1
      BY <1>2
    <3> QED
      BY <1>6, <1>18, <2>2, <3>1
  <2>4. /\ a \o blocks \in Seq(Seq(S)) /\ Len(a \o blocks) = (q + 1) + more
        /\ \A k \in 1 .. Len(a) : (a \o blocks)[k] = a[k]
        /\ \A k \in 1 .. Len(blocks) : (a \o blocks)[Len(a) + k] = blocks[k]
    <3> DEFINE T == Seq(S)
    <3>1. a \in Seq(T) /\ blocks \in Seq(T)
      BY <2>1, <2>2
    <3> HIDE DEF T
    <3>2. /\ a \o blocks \in Seq(T) /\ Len(a \o blocks) = Len(a) + Len(blocks)
          /\ \A k \in 1 .. Len(a) : (a \o blocks)[k] = a[k]
          /\ \A k \in 1 .. Len(blocks) : (a \o blocks)[Len(a) + k] = blocks[k]
      BY <3>1, Joined
    <3> QED
      BY <2>1, <2>2, <3>2 DEF T
  <2>5. ASSUME NEW k \in 1 .. (q + 1) + more PROVE (a \o blocks)[k] = BlockAt(m, Place(k))
    <3>1. CASE k \in 1 .. q + 1
      BY <2>2, <2>3, <2>4, <3>1
    <3>2. CASE k \notin 1 .. q + 1
      <4>1. k - (q + 1) \in 1 .. more /\ (q + 1) + (k - (q + 1)) = k
        BY <1>2, <1>10, <3>2
      <4> QED
        BY <1>19, <2>1, <2>2, <2>4, <4>1
    <3> QED
      BY <3>1, <3>2
  <2>6. \A k \in 1 .. (q + 1) + more : (a \o blocks)[k] = Blocks(m)[k]
    BY <1>8, <1>17, <2>5
  <2>7. a \o blocks = Blocks(m)
    BY <1>8, <1>17, <2>4, <2>6, SeqEqual
  <2> QED
    BY <1>5, <2>7
<1>21. ASSUME NEW i \in 1 .. r PROVE f[i] = m[((L + n) - r) + i]
  <2>1. i \in 1 .. B /\ rest + i \in 1 .. n /\ L + (rest + i) = ((L + n) - r) + i
    BY <1>1, <1>10, <1>13
  <2>2. DOMAIN first = 1 .. B
    BY <1>11
  <2>3. i \in 0 + 1 .. 0 + Len(last) /\ i - 0 = i
    BY <1>10, <1>14
  <2>4. f[i] = last[i]
    BY <1>15, <2>1, <2>2, <2>3
  <2> QED
    BY <1>3, <1>14, <2>1, <2>4
<1>22. \A i \in 1 .. Len(m) % B : u.buffer[i] = m[(Len(m) - (Len(m) % B)) + i]
  BY <1>3, <1>5, <1>17, <1>21
<1>23. DOMAIN u.buffer = 1 .. B /\ u.count = BitCount(Len(m))
       /\ u = [count |-> u.count, state |-> u.state, buffer |-> u.buffer]
  BY <1>2, <1>3, <1>5, <1>11, <1>15
<1> QED
  BY <1>20, <1>22, <1>23 DEF HasRead, u, m

\* MD5Update (md5.c:21) reads on from wherever the last call stopped.
LEMMA UpdateReads ==
  ASSUME NEW S, NEW p \in Seq(S), NEW d \in Seq(S), NEW c, HasRead(c, p)
  PROVE  HasRead(MD5Update(c, d), p \o d)
<1>1. Len(p) % BlockSize \in 0 .. BlockSize - 1 /\ BlockSize \in Nat /\ Len(d) \in Nat
  BY ReadSoFar, Md5Assumption
<1> DEFINE w == BlockSize - (Len(p) % BlockSize)
<1>2. w \in Int
  BY <1>1
<1>3. Len(d) < w \/ Len(d) >= w
  <2> HIDE DEF w
  <2> QED
    BY <1>1, <1>2
<1> QED
  BY <1>3, ReadPart, ReadBlocks

\* The length of MD5Final's padding (md5.c:54-59) is the bit and as few zeros as
\* let the count end a block.
LEMMA PaddingIs ==
  ASSUME NEW L \in Nat
  PROVE  LET x == L % BlockSize
             room == BlockSize - CountSize
             padlen == IF x < room THEN room - x ELSE BlockSize + room - x
             zeros == (-(L + 1 + CountSize)) % BlockSize
         IN zeros \in 0 .. BlockSize - 1 /\ padlen = zeros + 1
<1> DEFINE B == BlockSize
           x == L % B
           q == L \div B
           room == B - CountSize
           padlen == IF x < room THEN room - x ELSE B + room - x
           e == -(L + 1 + CountSize)
           v == B * q
<1>1. B \in Nat \ {0} /\ B > 2 /\ CountSize = 2
  BY Md5Assumption DEF CountSize
<1>2. x \in 0 .. B - 1 /\ q \in Int /\ L = v + x /\ v \in Int
  BY <1>1, Division
<1>3. /\ B * ((0 - q) - 1) = B * (0 - q) - B * 1 /\ B * ((0 - q) - 2) = B * (0 - q) - B * 2
      /\ B * (0 - q) = B * 0 - B * q /\ B * 0 = 0 /\ B * 1 = B /\ B * 2 = B + B
  BY <1>1, <1>2, Distributes
<1>4. e = 0 - (L + 3)
  BY <1>1
<1>5. room = B - 2
  BY <1>1
<1>6. padlen = IF x < room THEN room - x ELSE B + room - x
  OBVIOUS
<1>7. e % B = padlen - 1 /\ padlen - 1 \in 0 .. B - 1
  <2> DEFINE y == B * ((0 - q) - 1)
             z == B * ((0 - q) - 2)
  <2>1. y = (0 - v) - B /\ z = (0 - v) - (B + B) /\ v \in Int /\ y \in Int /\ z \in Int
    BY <1>1, <1>2, <1>3
  <2> HIDE DEF x, room, padlen, e, v, y, z
  <2>2. CASE x < room
    <3>1. e = y + (padlen - 1) /\ padlen - 1 \in 0 .. B - 1 /\ e \in Int
      BY <1>1, <1>2, <1>4, <1>5, <1>6, <2>1, <2>2
    <3>2. (0 - q) - 1 \in Int
      BY <1>2
    <3> QED
      BY <1>1, <3>1, <3>2, DivisionIs DEF y
  <2>3. CASE ~(x < room)
    <3>1. e = z + (padlen - 1) /\ padlen - 1 \in 0 .. B - 1 /\ e \in Int
      BY <1>1, <1>2, <1>4, <1>5, <1>6, <2>1, <2>3
    <3>2. (0 - q) - 2 \in Int
      BY <1>2
    <3> QED
      BY <1>1, <3>1, <3>2, DivisionIs DEF z
  <2> QED
    BY <2>2, <2>3
<1>8. padlen \in Int
  BY <1>1, <1>2
<1> DEFINE zeros == e % B
<1>9. zeros \in 0 .. B - 1 /\ padlen = zeros + 1
  <2> HIDE DEF padlen, e
  <2> QED
    BY <1>7, <1>8
<1> QED
  BY <1>9

\* What is taken of PADDING is one bit and zeros.
LEMMA PaddingBytes ==
  ASSUME NEW z \in 0 .. BlockSize - 1
  PROVE  SubSeq(PADDING, 1, z + 1) = <<BIT>> \o [i \in 1 .. z |-> ZERO]
<1> DEFINE T == {BIT, ZERO}
           zs == [i \in 1 .. z |-> ZERO]
           s == SubSeq(PADDING, 1, z + 1)
           t == <<BIT>> \o zs
<1>1. BlockSize \in Nat \ {0} /\ z \in Nat
  BY Md5Assumption
<1>2. PADDING \in Seq(T) /\ Len(PADDING) = BlockSize
      /\ \A i \in 1 .. BlockSize : PADDING[i] = IF i = 1 THEN BIT ELSE ZERO
  BY <1>1 DEF PADDING
<1>3. zs \in Seq(T) /\ Len(zs) = z /\ \A i \in 1 .. z : zs[i] = ZERO
  BY <1>1
<1>4. <<BIT>> \in Seq(T) /\ Len(<<BIT>>) = 1 /\ <<BIT>>[1] = BIT
  OBVIOUS
<1>5. Len(s) = z + 1 /\ (\A i \in 1 .. z + 1 : s[i] = PADDING[i]) /\ s \in Seq(T)
  <2>1. z + 1 \in Nat /\ z + 1 <= Len(PADDING) /\ 1 <= z + 1 + 1
    BY <1>1, <1>2
  <2> HIDE DEF T
  <2>2. SubSeq(PADDING, 1, z + 1) \in Seq(T)
    BY <1>2, <2>1, Pieces
  <2> QED
    BY <1>2, <2>1, <2>2, FirstBytes
<1> HIDE DEF T, zs
<1>6. /\ t \in Seq(T) /\ Len(t) = 1 + z
      /\ \A i \in 1 .. 1 : t[i] = <<BIT>>[i]
      /\ \A i \in 1 .. z : t[1 + i] = zs[i]
  BY <1>3, <1>4, Joined
<1> HIDE DEF s, t
<1>7. \A i \in 1 .. z + 1 : s[i] = t[i]
  <2> SUFFICES ASSUME NEW i \in 1 .. z + 1 PROVE s[i] = t[i]
    OBVIOUS
  <2>1. CASE i = 1
    BY <1>1, <1>2, <1>4, <1>5, <1>6, <2>1
  <2>2. CASE i # 1
    <3>1. i - 1 \in 1 .. z /\ 1 + (i - 1) = i /\ i \in 1 .. BlockSize
      BY <1>1, <2>2
    <3> QED
      BY <1>2, <1>3, <1>5, <1>6, <2>2, <3>1
  <2> QED
    BY <2>1, <2>2
<1>8. Len(s) = Len(t)
  BY <1>1, <1>5, <1>6
<1> QED
  BY <1>5, <1>6, <1>7, <1>8, SeqEqual DEF s, t, zs

\* MD5Final (md5.c:52) of a context is the MD5 of the bytes that it has read.
LEMMA FinalIs ==
  ASSUME NEW S, NEW p \in Seq(S), NEW c, HasRead(c, p)
  PROVE  MD5Final(c) = Digest(p)
<1> DEFINE T == (S \cup {BIT, ZERO}) \cup ({"count"} \X Nat)
           L == Len(p)
           x == L % BlockSize
           room == BlockSize - CountSize
           padlen == IF x < room THEN room - x ELSE BlockSize + room - x
           zeros == (-(L + 1 + CountSize)) % BlockSize
           zs == [i \in 1 .. zeros |-> ZERO]
           pad == SubSeq(PADDING, 1, padlen)
           enc == MD5Encode(c.count)
<1>1. L \in Nat /\ Index(c) = x
  BY ReadSoFar
<1>2. zeros \in 0 .. BlockSize - 1 /\ padlen = zeros + 1
  BY <1>1, PaddingIs
<1>3. c.count = BitCount(L)
  BY DEF HasRead
<1>4. MD5Final(c) = MD5Update(MD5Update(c, pad), enc).state
  BY <1>1 DEF MD5Final
<1>5. Padded(p) = ((p \o <<BIT>>) \o zs) \o enc
  BY <1>3 DEF Padded, BitCount
<1>6. pad = <<BIT>> \o zs
  BY <1>2, PaddingBytes
<1>7. p \in Seq(T)
  OBVIOUS
<1>8. zs \in Seq(T) /\ <<BIT>> \in Seq(T)
  <2>1. zeros \in Nat
    BY <1>2
  <2> HIDE DEF zeros
  <2> QED
    BY <2>1
<1>9. enc \in Seq(T)
  <2> DEFINE N == L * Bits
             a == N % Word
             b == (N \div Word) % Word
  <2>1. Word \in Nat \ {0} /\ N \in Int
    BY <1>1, Md5Assumption
  <2>2. enc = <<<<"count", a>>, <<"count", b>>>>
    BY <1>3 DEF MD5Encode, BitCount
  <2> HIDE DEF N
  <2>3. a \in Nat /\ b \in Nat
    BY <2>1, Division
  <2> HIDE DEF a, b
  <2>4. <<"count", a>> \in T /\ <<"count", b>> \in T
    BY <2>3
  <2> HIDE DEF T
  <2> QED
    BY <2>2, <2>4
<1> HIDE DEF T, zs, enc, pad, padlen
<1>10. pad \in Seq(T)
  BY <1>6, <1>8, ConcatProperties
<1>11. HasRead(MD5Update(c, pad), p \o pad)
  BY <1>7, <1>10, UpdateReads
<1>12. p \o pad \in Seq(T)
  BY <1>7, <1>10, ConcatProperties
<1>13. HasRead(MD5Update(MD5Update(c, pad), enc), (p \o pad) \o enc)
  BY <1>9, <1>11, <1>12, UpdateReads
<1>14. MD5Final(c) = Blocks((p \o pad) \o enc)
  BY <1>4, <1>13 DEF HasRead
<1>15. (p \o <<BIT>>) \o zs = p \o pad
  BY <1>6, <1>7, <1>8, ConcatAssociative
<1> QED
  BY <1>5, <1>14, <1>15 DEF Digest

\* One call reads the whole file.
LEMMA WholeFile ==
  ASSUME NEW S, NEW p \in Seq(S)
  PROVE  HasRead(MD5Update(MD5Init, p), p)
<1>1. <<>> \in Seq(S)
  OBVIOUS
<1>2. HasRead(MD5Update(MD5Init, p), <<>> \o p)
  BY <1>1, NothingRead, UpdateReads
<1> QED
  BY <1>2, ConcatEmptySeq

-----------------------------------------------------------------------------
(* Digests and uploads. *)

\* Until the end of the file the context has what was read of it; afterwards the
\* digest is there.
DigestInv ==
  /\ sPc \in {"hash", "chunks"} => ~edited
  /\ sPc = "hash" => context = MD5Init /\ digest = Absent
  /\ sPc = "chunks" =>
       /\ pos \in 0 .. Len(source)
       /\ HasRead(context, SubSeq(source, 1, pos))
       /\ digest = Absent
  /\ kind \in Uploads => sPc # "chunks"
  /\ kind \in Uploads /\ sPc # "hash" /\ ~edited => digest = Digest(source)
  /\ DigestIsMd5

\* Nothing has been read.
LEMMA DigestInit == StreamAssumption /\ Init => DigestInv
<1> SUFFICES ASSUME StreamAssumption, Init PROVE DigestInv
  OBVIOUS
<1>1. /\ digest = Absent /\ edited = FALSE /\ pos = 0 /\ context = MD5Init
      /\ sPc = IF kind \in Uploads THEN "hash" ELSE IF kind = "md5" THEN "chunks" ELSE "open"
  BY DEF Init
<1>2. source \in Seq(Data)
  BY FileInit DEF FileInv
<1>3. SubSeq(source, 1, 0) = <<>> /\ 0 \in 0 .. Len(source)
  BY <1>2
<1>4. HasRead(context, SubSeq(source, 1, pos))
  BY <1>1, <1>3, NothingRead
<1> QED
  BY <1>1, <1>3, <1>4 DEF DigestInv, DigestIsMd5

\* compute_file_md5 goes on where it stopped.
LEMMA ChunkKeeps ==
  ASSUME StreamAssumption, FileInv, DigestInv, HashChunk
  PROVE  DigestInv'
<1> DEFINE n == IF Len(source) - pos < READ_DATA_SIZE THEN Len(source) - pos ELSE READ_DATA_SIZE
           p == SubSeq(source, 1, pos)
           data == SubSeq(source, pos + 1, pos + n)
           read == MD5Update(context, data)
<1>1. /\ sPc = "chunks" /\ context' = read /\ pos' = pos + Len(data)
      /\ UNCHANGED <<kind, source, edited>>
      /\ IF Len(data) < READ_DATA_SIZE
           THEN digest' = MD5Final(read) /\ sPc' = "closed"
           ELSE UNCHANGED <<digest, sPc>>
  BY DEF HashChunk
<1>2. source \in Seq(Data) /\ READ_DATA_SIZE \in Nat \ {0} /\ Len(source) \in Nat
  BY DEF FileInv, StreamAssumption
<1>3. pos \in 0 .. Len(source) /\ HasRead(context, p) /\ ~edited /\ digest = Absent /\ kind \notin Uploads
  BY <1>1 DEF DigestInv
<1>4. n \in Nat /\ pos + n <= Len(source) /\ (n < READ_DATA_SIZE => pos + n = Len(source))
  BY <1>2, <1>3
<1> HIDE DEF n
<1>5. /\ p \in Seq(Data) /\ Len(p) = pos /\ \A k \in 1 .. pos : p[k] = source[k]
  <2>1. pos \in Nat /\ pos <= Len(source) /\ 1 <= pos + 1 /\ 1 \in Nat \ {0}
    BY <1>2, <1>3
  <2> QED
    BY <1>2, <2>1, Pieces, FirstBytes
<1>6. /\ data \in Seq(Data) /\ Len(data) = n /\ \A k \in 1 .. n : data[k] = source[pos + k]
  <2> DEFINE i == pos + 1
             j == pos + n
  <2>1. /\ i \in Nat \ {0} /\ j \in Nat /\ i <= j + 1 /\ j <= Len(source) /\ j - i + 1 = n
        /\ \A k \in 1 .. n : i + k - 1 = pos + k
    BY <1>2, <1>3, <1>4
  <2> HIDE DEF i, j
  <2>2. /\ SubSeq(source, i, j) \in Seq(Data) /\ Len(SubSeq(source, i, j)) = j - i + 1
        /\ \A k \in 1 .. j - i + 1 : SubSeq(source, i, j)[k] = source[i + k - 1]
    BY <1>2, <2>1, Pieces
  <2>3. /\ SubSeq(source, i, j) \in Seq(Data) /\ Len(SubSeq(source, i, j)) = n
        /\ \A k \in 1 .. n : SubSeq(source, i, j)[k] = source[pos + k]
    BY <2>1, <2>2
  <2> QED
    BY <2>3 DEF i, j
<1> HIDE DEF p, data
<1>7. HasRead(read, p \o data)
  BY <1>3, <1>5, <1>6, UpdateReads
<1>8. p \o data = SubSeq(source, 1, pos + n)
  <2> DEFINE l == p \o data
             h == SubSeq(source, 1, pos + n)
  <2>1. /\ l \in Seq(Data) /\ Len(l) = pos + n
        /\ \A k \in 1 .. pos : l[k] = source[k]
        /\ \A k \in 1 .. n : l[pos + k] = source[pos + k]
    <3>1. /\ p \o data \in Seq(Data) /\ Len(p \o data) = Len(p) + Len(data)
          /\ \A i \in 1 .. Len(p) : (p \o data)[i] = p[i]
          /\ \A i \in 1 .. Len(data) : (p \o data)[Len(p) + i] = data[i]
      <4>1. p \in Seq(Data) /\ data \in Seq(Data)
        BY <1>5, <1>6
      <4> QED
        BY <4>1, Joined
    <3> QED
      BY <1>5, <1>6, <3>1
  <2>2. h \in Seq(Data) /\ Len(h) = pos + n /\ \A k \in 1 .. pos + n : h[k] = source[k]
    <3> DEFINE w == pos + n
    <3>1. w \in Nat /\ w <= Len(source) /\ 1 <= w + 1 /\ 1 \in Nat \ {0}
      BY <1>3, <1>4
    <3> HIDE DEF w
    <3>2. SubSeq(source, 1, w) \in Seq(Data) /\ Len(SubSeq(source, 1, w)) = w
          /\ \A k \in 1 .. w : SubSeq(source, 1, w)[k] = source[k]
      BY <1>2, <3>1, Pieces, FirstBytes
    <3> QED
      BY <3>2 DEF w
  <2> HIDE DEF l, h
  <2>3. \A k \in 1 .. pos + n : l[k] = h[k]
    <3> SUFFICES ASSUME NEW k \in 1 .. pos + n PROVE l[k] = h[k]
      OBVIOUS
    <3>1. CASE k \in 1 .. pos
      BY <2>1, <2>2, <3>1
    <3>2. CASE k \notin 1 .. pos
      <4>1. k - pos \in 1 .. n /\ pos + (k - pos) = k
        BY <1>3, <1>4, <3>2
      <4>2. l[pos + (k - pos)] = source[pos + (k - pos)]
        BY <2>1, <4>1
      <4> QED
        BY <2>2, <4>1, <4>2
    <3> QED
      BY <3>1, <3>2
  <2> QED
    BY <2>1, <2>2, <2>3, SeqEqual DEF l, h
<1>9. n < READ_DATA_SIZE => MD5Final(read) = Digest(source)
  <2> SUFFICES ASSUME n < READ_DATA_SIZE PROVE MD5Final(read) = Digest(source)
    OBVIOUS
  <2>1. SubSeq(source, 1, Len(source)) = source
    BY <1>2
  <2>2. HasRead(read, source)
    BY <1>4, <1>7, <1>8, <2>1
  <2> HIDE DEF read
  <2> QED
    BY <1>2, <2>2, FinalIs
<1>10. pos + n \in 0 .. Len(source)
  BY <1>2, <1>3, <1>4
<1>11. HasRead(context, SubSeq(source, 1, pos))'
  BY <1>1, <1>6, <1>7, <1>8
<1>12. CASE n < READ_DATA_SIZE
  <2>1. digest' = Digest(source) /\ sPc' = "closed" /\ UNCHANGED <<kind, source, edited>>
    BY <1>1, <1>6, <1>9, <1>12
  <2> QED
    BY <1>3, <2>1 DEF DigestInv, DigestIsMd5
<1>13. CASE ~(n < READ_DATA_SIZE)
  <2>1. UNCHANGED <<digest, sPc, kind, source, edited>> /\ pos' = pos + n
    BY <1>1, <1>6, <1>13
  <2> QED
    BY <1>1, <1>3, <1>10, <1>11, <2>1 DEF DigestInv, DigestIsMd5
<1> QED
  BY <1>12, <1>13

\* Every step keeps the digest.
LEMMA DigestStep ==
  ASSUME StreamAssumption, FileInv, DigestInv, [Next]_vars
  PROVE  DigestInv'
<1>1. CASE Hash
  <2>1. /\ sPc = "hash" /\ digest' = MD5Final(MD5Update(context, source)) /\ sPc' = "open"
        /\ UNCHANGED <<kind, source, edited>>
    BY <1>1 DEF Hash
  <2>2. context = MD5Init /\ source \in Seq(Data)
    BY <2>1 DEF DigestInv, FileInv
  <2>3. HasRead(MD5Update(context, source), source)
    BY <2>2, WholeFile
  <2>4. digest' = Digest(source)
    BY <2>1, <2>2, <2>3, FinalIs
  <2> QED
    BY <2>1, <2>4 DEF DigestInv, DigestIsMd5
<1>2. CASE HashChunk
  BY <1>2, ChunkKeeps
<1>3. CASE Edit
  <2>1. sPc = "open" /\ sPc' = sPc /\ edited' = TRUE
    BY <1>3 DEF Edit, senderVars
  <2> QED
    BY <2>1 DEF DigestInv, DigestIsMd5
<1>4. CASE Open \/ Send \/ Die
  <2>1. /\ sPc \notin {"hash", "chunks"} /\ sPc' \notin {"hash", "chunks"}
        /\ UNCHANGED <<kind, source, edited, digest>>
    BY <1>4 DEF Open, Send, Die, md5Vars
  <2> QED
    BY <2>1 DEF DigestInv, DigestIsMd5
<1>5. CASE RecvFile \/ UNCHANGED vars
  <2>1. UNCHANGED <<kind, source, edited, digest, sPc, context, pos>>
    BY <1>5 DEF RecvFile, RecvHeader, LostHeader, RecvData, LostData, md5Vars, senderVars, vars
  <2> QED
    BY <2>1 DEF DigestInv, DigestIsMd5
<1> QED
  BY <1>1, <1>2, <1>3, <1>4, <1>5 DEF Next, SendFile

\* The invariants of the stream, the file and the digest hold of every behavior.
LEMMA DigestKept == ASSUME StreamAssumption PROVE Spec => [](StreamInv /\ FileInv /\ DigestInv)
<1>1. Init => StreamInv /\ FileInv /\ DigestInv
  BY StreamInit, FileInit, DigestInit
<1>2. StreamInv /\ FileInv /\ DigestInv /\ [Next]_vars => DigestInv'
  BY DigestStep
<1> QED
  BY <1>1, <1>2, StreamKept, FileStep, PTL DEF Spec

(***************************************************************************)
(* For every size of a file, of its blocks and of the pieces in which it   *)
(* is read, and however often the count of bits outgrows its word, what    *)
(* MD5Update and MD5Final (md5.c:21, 52) make of it is its MD5: with one   *)
(* call (child_pthread.c:53-64) or in a loop (compute_file_md5, md5.c:183).*)
(***************************************************************************)
THEOREM DigestOfAll == Spec => []DigestIsMd5
<1>1. DigestInv => DigestIsMd5
  BY DEF DigestInv
<1> QED
  BY <1>1, StreamAssumption, DigestKept, PTL

\* A whole upload has the content of the source, whatever there was before.
ArrivedInv == kind \in Uploads /\ rPc = "done" /\ ~cut => file = source

\* All of the content, in a file that was cut or grown to its size, is the file.
LEMMA WholePartial ==
  ASSUME source \in Seq(Data), fileSize = Len(source), kind # "winGet"
  PROVE  Partial(Len(source)) = source
<1> DEFINE f == Resized(Before, Len(source))
           n == Len(source)
<1>1. Partial(Len(source)) = Memcpy(f, 0, SubSeq(source, 1, Len(source)))
  BY DEF Partial, Before
<1>2. SubSeq(source, 1, Len(source)) = source
  OBVIOUS
<1>3. DOMAIN f = 1 .. n /\ n \in Nat
  BY DEF Resized
<1>4. Memcpy(f, 0, source) = [i \in 1 .. n |-> source[i]]
  BY <1>3 DEF Memcpy
<1>5. source = [i \in 1 .. n |-> source[i]]
  OBVIOUS
<1> QED
  BY <1>1, <1>2, <1>4, <1>5

\* recvFile returns with less than the whole file only if the client was killed.
LEMMA ArrivedStep ==
  ASSUME StreamAssumption, StreamInv, FileInv, FileInv', ArrivedInv, [Next]_vars
  PROVE  ArrivedInv'
<1>1. CASE Hash \/ HashChunk \/ Open \/ Send \/ Die \/ UNCHANGED vars
  <2>1. UNCHANGED <<kind, source, rPc, file>> /\ (cut => cut')
    BY <1>1 DEF Hash, HashChunk, Open, Send, Die, receiverVars, senderVars, vars
  <2> QED
    BY <2>1 DEF ArrivedInv
<1>2. CASE Edit
  <2>1. kind \in Uploads /\ sPc = "open" /\ UNCHANGED rPc
    BY <1>2 DEF Edit, receiverVars
  <2>2. rPc \in DOMAIN After
    BY <2>1 DEF StreamInv, ReceiverInv, Uploads
  <2> QED
    BY <2>1, <2>2, Layout DEF ArrivedInv
<1>3. CASE RecvHeader
  <2> SUFFICES ASSUME kind' \in Uploads, rPc' = "done", ~cut' PROVE file' = source'
    BY DEF ArrivedInv
  <2>1. rPc \in DOMAIN After /\ UNCHANGED <<kind, source>>
    BY <1>3 DEF RecvHeader
  <2>2. rPc = "size" /\ Begin(file, Len(source))
    BY <1>3, <2>1, Layout DEF RecvHeader, After
  <2>3. kind # "winGet" /\ source \in Seq(Data)
    BY <2>1 DEF Uploads, FileInv
  <2>4. Len(source) = 0 /\ file' = Resized(file, Len(source))
    BY <2>2, <2>3 DEF Begin
  <2> QED
    BY <2>1, <2>3, <2>4 DEF Resized
<1>4. CASE LostHeader
  <2> SUFFICES ASSUME kind' \in Uploads, ~cut' PROVE FALSE
    BY DEF ArrivedInv
  <2>1. /\ rPc \in DOMAIN After /\ sPc = "closed" /\ rcvd = sent /\ ~cut /\ kind \in Uploads
        /\ kind # "md5"
    BY <1>4 DEF LostHeader, Lost, senderVars, Uploads
  <2>2. sent = All /\ total < Width[rPc] /\ rcvd = Start[rPc] + total
    BY <2>1 DEF StreamInv, SenderInv, ReceiverInv
  <2>3. /\ Width[rPc] \in Nat /\ Start[rPc] \in Nat /\ Start[rPc] + Width[rPc] <= Start.data
        /\ Start.data \in Nat /\ total \in Nat /\ Len(source) \in Nat
    BY <2>1, Layout DEF StreamInv, StreamType
  <2> DEFINE d == Start[rPc]
             w == Width[rPc]
             e == Start.data
             l == Len(source)
  <2>4. /\ rcvd = sent /\ sent = e + l /\ total < w /\ rcvd = d + total /\ d + w <= e
        /\ w \in Nat /\ d \in Nat /\ e \in Nat /\ total \in Nat /\ l \in Nat
    BY <2>1, <2>2, <2>3 DEF All
  <2> HIDE DEF d, w, e, l
  <2> QED
    BY <2>4
<1>5. CASE RecvData
  <2> SUFFICES ASSUME kind' \in Uploads, rPc' = "done", ~cut' PROVE file' = source'
    BY DEF ArrivedInv
  <2>1. /\ rPc = "data" /\ ~cut /\ UNCHANGED <<kind, source, old, fileSize, cut>>
        /\ \E n \in Taken(fileSize - total) :
             total' = total + n /\ ~(total + n < fileSize)
    BY <1>5 DEF RecvData, senderVars
  <2>2. PICK n \in Taken(fileSize - total) : total' = total + n /\ ~(total + n < fileSize)
    BY <2>1
  <2>3. /\ total < fileSize /\ fileSize = Len(source) /\ total \in Nat /\ fileSize \in Int
        /\ rcvd <= sent /\ StreamType
    BY <2>1 DEF StreamInv, StreamType, ReceiverInv, Silent
  <2>4. n \in Nat \ {0} /\ n <= fileSize - total
    BY <2>3, TakenBound
  <2>5. total' = Len(source)' /\ fileSize' > 0
    BY <2>1, <2>2, <2>3, <2>4
  <2>6. file' = Partial(total)'
    BY <2>5 DEF FileInv, PrefixArrives
  <2>7. Partial(total)' = Partial(Len(source))
    BY <2>1, <2>5 DEF Partial
  <2>8. kind # "winGet" /\ source \in Seq(Data)
    BY <2>1 DEF Uploads, FileInv
  <2> QED
    BY <2>1, <2>3, <2>6, <2>7, <2>8, WholePartial
<1>6. CASE LostData
  <2> SUFFICES ASSUME kind' \in Uploads, ~cut' PROVE FALSE
    BY DEF ArrivedInv
  <2>1. rPc = "data" /\ sPc = "closed" /\ rcvd = sent /\ ~cut /\ kind \in Uploads /\ kind # "md5"
    BY <1>6 DEF LostData, Lost, senderVars, Uploads
  <2>2. sent = All /\ total < fileSize /\ rcvd = Start.data + total /\ fileSize = Len(source)
    BY <2>1 DEF StreamInv, SenderInv, ReceiverInv, Silent
  <2>3. Start.data \in Nat /\ total \in Nat /\ Len(source) \in Nat
    BY Layout DEF StreamInv, StreamType
  <2> DEFINE e == Start.data
             l == Len(source)
  <2>4. /\ rcvd = sent /\ sent = e + l /\ total < l /\ rcvd = e + total
        /\ e \in Nat /\ total \in Nat /\ l \in Nat
    BY <2>1, <2>2, <2>3 DEF All
  <2> HIDE DEF e, l
  <2> QED
    BY <2>4
<1> QED
  BY <1>1, <1>2, <1>3, <1>4, <1>5, <1>6 DEF Next, SendFile, RecvFile

(***************************************************************************)
(* For files of every size, whatever the server had before and however     *)
(* recv cuts the stream: the file that recvFile (send_recv_file.c:24) has  *)
(* written has the digest under which the server records it, if its client *)
(* lived and nobody wrote the file after the digest was taken.             *)
(***************************************************************************)
THEOREM UploadsHaveDigest == Spec => []UploadHasDigest
<1>1. Init => ArrivedInv
  BY DEF Init, ArrivedInv, Uploads
<1>2. StreamInv /\ FileInv /\ FileInv' /\ ArrivedInv /\ [Next]_vars => ArrivedInv'
  BY StreamAssumption, ArrivedStep
<1>3. StreamInv /\ DigestInv /\ ArrivedInv => UploadHasDigest
  <2> SUFFICES ASSUME StreamInv, DigestInv, ArrivedInv, kind \in Uploads, rPc = "done", ~cut, ~edited
               PROVE  Digest(file) = digest
    BY DEF UploadHasDigest
  <2>1. file = source
    BY DEF ArrivedInv
  <2>2. sPc \in {"send", "closed"}
    BY StreamAssumption, Layout DEF StreamInv, ReceiverInv, Uploads
  <2> QED
    BY <2>1, <2>2 DEF DigestInv
<1> QED
  BY <1>1, <1>2, <1>3, StreamAssumption, DigestKept, PTL DEF Spec

\* The types, and a file that is being written is there.
TypeInv ==
  /\ TypeOK
  /\ Len(source) \in 0 .. MaxSize
  /\ rPc \in {"sizeLen", "size", "data"} => file \in Seq(Bytes)

\* A content is a file of at most MaxSize bytes.
LEMMA ContentType ==
  ASSUME StreamAssumption, NEW who \in {"new", "old", "edited"}, NEW sizes \in SUBSET (0 .. MaxSize),
         NEW s \in Contents(who, sizes)
  PROVE  s \in Seq(Bytes) /\ Len(s) \in 0 .. MaxSize
<1>1. PICK n \in sizes : s = [i \in 1 .. n |-> <<who, i>>]
  BY DEF Contents, ContentOf
<1>2. n \in Nat /\ n <= MaxSize /\ MaxSize \in Nat
  <2>1. MaxSize \in Nat
    BY DEF StreamAssumption
  <2>2. n \in 0 .. MaxSize
    BY <1>1
  <2> QED
    BY <2>1, <2>2
<1>3. s \in [1 .. n -> Bytes]
  BY <1>1, <1>2 DEF Bytes
<1>4. s \in Seq(Bytes) /\ Len(s) = n
  BY <1>1, <1>2, <1>3
<1> QED
  BY <1>2, <1>4

\* The types hold before anything is sent.
LEMMA TypeInit == StreamAssumption /\ Init => TypeInv
<1> SUFFICES ASSUME StreamAssumption, Init PROVE TypeInv
  OBVIOUS
<1>1. source \in Seq(Bytes) /\ Len(source) \in 0 .. MaxSize
  <2>1. source \in Contents("new", 0 .. MaxSize)
    BY DEF Init
  <2> QED
    BY <2>1, ContentType
<1>2. old \in Seq(Bytes) \cup {Absent}
  <2>1. old \in Contents("old", OtherSizes) \cup {Absent} /\ OtherSizes \in SUBSET (0 .. MaxSize)
    BY DEF Init, StreamAssumption
  <2> QED
    BY <2>1, ContentType
<1>3. /\ kind \in Uploads \cup Downloads \cup {"md5"}
      /\ pos = 0 /\ sent = 0 /\ rcvd = 0 /\ total = 0 /\ fileSize = 0
      /\ sPc \in {"hash", "chunks", "open"} /\ rPc \in {"done", "nameLen"}
      /\ cut = FALSE /\ edited = FALSE /\ file = old
  BY DEF Init
<1>4. pos \in 0 .. MaxSize /\ rcvd \in 0 .. sent /\ fileSize \in -1 .. MaxSize
  <2>1. MaxSize \in Nat
    BY DEF StreamAssumption
  <2>2. 0 \in 0 .. MaxSize /\ 0 \in 0 .. 0 /\ 0 \in -1 .. MaxSize
    BY <2>1
  <2> QED
    BY <1>3, <2>2
<1>5. sent \in Nat /\ total \in Nat /\ file \in Seq(Bytes) \cup {Absent}
  BY <1>2, <1>3
<1>6. TypeOK
  BY <1>1, <1>2, <1>3, <1>4, <1>5 DEF TypeOK
<1> QED
  BY <1>1, <1>3, <1>6 DEF TypeInv

\* The sender and its user: what is read stays within the file.
LEMMA SenderTypes ==
  ASSUME StreamAssumption, StreamInv', DigestInv, TypeInv,
         Hash \/ HashChunk \/ Edit \/ Open \/ Send \/ Die
  PROVE  TypeInv'
<1>1. UNCHANGED <<kind, rPc, total, rcvd, file, fileSize, old>>
  BY DEF Hash, HashChunk, Edit, Open, Send, Die, receiverVars
<1>2. cut' \in BOOLEAN /\ edited' \in BOOLEAN
  BY DEF Hash, HashChunk, Edit, Open, Send, Die, TypeInv, TypeOK, senderVars
<1>3. sPc' \in {"hash", "chunks", "open", "send", "closed"} /\ sent' \in Nat /\ rcvd' \in 0 .. sent'
  BY DEF StreamInv, StreamType, ReceiverInv, SenderPc
<1>4. source' \in Seq(Bytes) /\ Len(source') \in 0 .. MaxSize
  <2>1. CASE Edit
    <3>1. source' \in Contents("edited", OtherSizes) /\ OtherSizes \in SUBSET (0 .. MaxSize)
      BY <2>1 DEF Edit, StreamAssumption
    <3> QED
      BY <3>1, ContentType
  <2>2. CASE ~Edit
    <3>1. UNCHANGED source
      BY <2>2 DEF Hash, HashChunk, Open, Send, Die
    <3> QED
      BY <3>1 DEF TypeInv, TypeOK
  <2> QED
    BY <2>1, <2>2
<1>5. pos' \in 0 .. MaxSize
  <2>1. CASE HashChunk
    <3> DEFINE n == IF Len(source) - pos < READ_DATA_SIZE THEN Len(source) - pos ELSE READ_DATA_SIZE
    <3>1. pos \in 0 .. Len(source) /\ Len(source) \in 0 .. MaxSize /\ source \in Seq(Bytes)
      BY <2>1 DEF HashChunk, DigestInv, TypeInv, TypeOK
    <3>2. READ_DATA_SIZE \in Nat
      BY DEF StreamAssumption
    <3>3. n \in Nat /\ pos + n <= Len(source) /\ MaxSize \in Nat
      BY <3>1, <3>2 DEF StreamAssumption
    <3>4. pos' = pos + Len(SubSeq(source, pos + 1, pos + n))
      BY <2>1 DEF HashChunk
    <3> HIDE DEF n
    <3>5. Len(SubSeq(source, pos + 1, pos + n)) = n
      <4> DEFINE i == pos + 1
                 j == pos + n
      <4>1. i \in Nat \ {0} /\ j \in Nat /\ i <= j + 1 /\ j <= Len(source) /\ j - i + 1 = n
        BY <3>1, <3>3
      <4> HIDE DEF i, j
      <4>2. Len(SubSeq(source, i, j)) = j - i + 1
        BY <3>1, <4>1, Pieces
      <4> QED
        BY <4>1, <4>2 DEF i, j
    <3> QED
      BY <3>1, <3>3, <3>4, <3>5
  <2>2. CASE ~HashChunk
    <3>1. UNCHANGED pos
      BY <2>2 DEF Hash, Edit, Open, Send, Die, md5Vars
    <3> QED
      BY <3>1 DEF TypeInv, TypeOK
  <2> QED
    BY <2>1, <2>2
<1> QED
  BY <1>1, <1>2, <1>3, <1>4, <1>5 DEF TypeInv, TypeOK

\* ftruncate makes a file of the size.
LEMMA ResizedType ==
  ASSUME NEW f \in Seq(Bytes), NEW n \in Nat
  PROVE  Resized(f, n) \in Seq(Bytes)
<1>1. \A i \in 1 .. n : i <= Len(f) => i \in 1 .. Len(f)
  OBVIOUS
<1>2. ZERO \in Bytes
  BY DEF Bytes
<1>3. Resized(f, n) \in [1 .. n -> Bytes]
  BY <1>1, <1>2 DEF Resized
<1> QED
  BY <1>3

\* memcpy keeps the length of what it writes to.
LEMMA MemcpyType ==
  ASSUME NEW f \in Seq(Bytes), NEW t \in Nat, NEW b \in Seq(Bytes)
  PROVE  Memcpy(f, t, b) \in Seq(Bytes)
<1>1. DOMAIN f = 1 .. Len(f) /\ Len(f) \in Nat /\ Len(b) \in Nat
  OBVIOUS
<1>2. \A i \in 1 .. Len(f) : i \in t + 1 .. t + Len(b) => i - t \in 1 .. Len(b)
  BY <1>1
<1>3. Memcpy(f, t, b) \in [1 .. Len(f) -> Bytes]
  BY <1>1, <1>2 DEF Memcpy
<1> QED
  BY <1>1, <1>3

\* The header: from its name on the file is there, and its size is a size.
LEMMA HeaderTypes ==
  ASSUME StreamAssumption, StreamInv', FileInv, TypeInv, RecvHeader \/ LostHeader
  PROVE  TypeInv'
<1>1. UNCHANGED <<kind, source, pos, sPc, sent, cut, edited, old>> /\ rPc \in DOMAIN After
  BY DEF RecvHeader, LostHeader, md5Vars, senderVars
<1>2. rPc' \in ReceiverPc /\ total' \in Nat /\ rcvd' \in 0 .. sent'
  BY DEF StreamInv, StreamType, ReceiverInv
<1>3. rPc \in {"nameLen", "name"} \/ (rPc \in {"sizeLen", "size"} /\ file \in Seq(Bytes))
  BY <1>1, Layout DEF TypeInv
<1>4. Created \in Seq(Bytes)
  BY DEF Created, TypeInv, TypeOK
<1>5. ASSUME NEW f \in Seq(Bytes), NEW n \in 0 .. MaxSize, Begin(f, n)
      PROVE  file' \in Seq(Bytes) /\ fileSize' \in -1 .. MaxSize
  <2>1. n \in Nat /\ MaxSize \in Nat /\ n <= MaxSize
    BY DEF StreamAssumption
  <2>2. file' = f \/ file' = Resized(f, n)
    BY <1>5 DEF Begin
  <2>3. fileSize' = n \/ fileSize' = -1
    BY <1>5 DEF Begin
  <2>4. file' \in Seq(Bytes)
    BY <2>1, <2>2, ResizedType
  <2>5. fileSize' \in -1 .. MaxSize
    BY <2>1, <2>3
  <2> QED
    BY <2>4, <2>5
<1>6. Len(source) \in 0 .. MaxSize /\ MaxSize \in Nat
  BY DEF TypeInv, StreamAssumption
<1>7. /\ file' \in Seq(Bytes) \cup {Absent} /\ fileSize' \in -1 .. MaxSize
      /\ rPc' \in {"sizeLen", "size", "data"} => file' \in Seq(Bytes)
  <2>1. CASE RecvHeader
    <3>1. CASE rPc = "size" /\ Begin(file, Len(source))
      BY <1>3, <1>5, <1>6, <3>1
    <3>2. CASE rPc # "size" /\ rPc' = After[rPc] /\ UNCHANGED fileSize
               /\ file' = IF rPc = "name" THEN Created ELSE file
      BY <1>3, <1>4, <3>2 DEF TypeInv, TypeOK, After
    <3>3. CASE UNCHANGED <<rPc, file, fileSize>>
      BY <3>3 DEF TypeInv, TypeOK
    <3> QED
      BY <2>1, <3>1, <3>2, <3>3 DEF RecvHeader
  <2>2. CASE LostHeader
    <3>1. CASE rPc' = "broken" /\ UNCHANGED <<file, fileSize>>
      BY <3>1 DEF TypeInv, TypeOK
    <3>2. CASE \E n \in 0 .. Len(source) : Begin(Created, n)
      <4>1. PICK n \in 0 .. Len(source) : Begin(Created, n)
        BY <3>2
      <4>2. n \in 0 .. MaxSize
        BY <1>6
      <4> QED
        BY <1>4, <1>5, <4>1, <4>2
    <3>3. {0} \subseteq 0 .. Len(source)
      BY <1>6
    <3> QED
      BY <2>2, <3>1, <3>2, <3>3 DEF LostHeader
  <2> QED
    BY <2>1, <2>2
<1> QED
  BY <1>1, <1>2, <1>7 DEF TypeInv, TypeOK, ReceiverPc

\* The content: what is written are bytes that have arrived.
LEMMA DataTypes ==
  ASSUME StreamAssumption, StreamInv, StreamInv', FileInv, TypeInv, RecvData \/ LostData
  PROVE  TypeInv'
<1>1. UNCHANGED <<kind, source, pos, sPc, sent, cut, edited, old, fileSize>> /\ rPc = "data"
  BY DEF RecvData, LostData, md5Vars, senderVars
<1>2. rPc' \in ReceiverPc /\ total' \in Nat /\ rcvd' \in 0 .. sent'
  BY DEF StreamInv, StreamType, ReceiverInv
<1>3. file \in Seq(Bytes) /\ source \in Seq(Bytes)
  BY <1>1 DEF TypeInv, TypeOK
<1>4. file' \in Seq(Bytes)
  <2>1. CASE RecvData
    <3>1. PICK n \in Taken(fileSize - total) :
            file' = Placed(SubSeq(source, rcvd - Start.data + 1, rcvd - Start.data + n))
      BY <2>1 DEF RecvData
    <3>2. /\ total \in Nat /\ fileSize \in Int /\ rcvd \in Nat /\ sent \in Nat
          /\ total < fileSize /\ rcvd <= sent /\ StreamType /\ Start.data \in Nat
          /\ (rcvd = Start.data + total /\ fileSize = Len(source)) \/ Silent
      BY <1>1, Layout DEF StreamInv, StreamType, ReceiverInv
    <3>3. n \in Nat \ {0} /\ n <= fileSize - total /\ rcvd + n <= sent
      BY <3>2, TakenBound
    <3>4. rcvd # sent
      BY <3>2, <3>3
    <3>5. rcvd = Start.data + total /\ fileSize = Len(source)
      BY <3>2, <3>4 DEF Silent
    <3> DEFINE d == Start.data
               i == rcvd - d + 1
               j == rcvd - d + n
    <3>6. i \in Nat \ {0} /\ j \in Nat /\ i <= j + 1 /\ j <= Len(source)
      <4> DEFINE l == Len(source)
      <4>1. /\ rcvd = d + total /\ n <= l - total /\ l \in Nat /\ d \in Nat /\ total \in Nat
            /\ n \in Nat
        BY <1>3, <3>2, <3>3, <3>5
      <4> HIDE DEF d, l
      <4>2. i \in Nat \ {0} /\ j \in Nat /\ i <= j + 1 /\ j <= l
        BY <4>1
      <4> QED
        BY <4>2 DEF l
    <3> HIDE DEF i, j
    <3>7. SubSeq(source, i, j) \in Seq(Bytes)
      BY <1>3, <3>6, Pieces
    <3>8. file' = Placed(SubSeq(source, i, j))
      BY <3>1 DEF i, j
    <3>9. CASE kind = "winGet"
      BY <1>3, <3>7, <3>8, <3>9, ConcatProperties DEF Placed
    <3>10. CASE kind # "winGet"
      BY <1>3, <3>2, <3>7, <3>8, <3>10, MemcpyType DEF Placed
    <3> QED
      BY <3>9, <3>10
  <2>2. CASE LostData
    BY <1>3, <2>2 DEF LostData
  <2> QED
    BY <2>1, <2>2
<1> QED
  BY <1>1, <1>2, <1>4 DEF TypeInv, TypeOK, ReceiverPc

(***************************************************************************)
(* Both processes, the connection and the file keep to their types: no     *)
(* position, count or size of sendFile, recvFile (send_recv_file.c) and    *)
(* compute_file_md5 (md5.c:183) leaves the file it belongs to.             *)
(***************************************************************************)
THEOREM StreamTypes == Spec => []TypeOK
<1>1. Init => TypeInv
  BY StreamAssumption, TypeInit
<1>2. StreamInv /\ StreamInv' /\ FileInv /\ DigestInv /\ TypeInv /\ [Next]_vars => TypeInv'
  <2> SUFFICES ASSUME StreamInv, StreamInv', FileInv, DigestInv, TypeInv, [Next]_vars PROVE TypeInv'
    OBVIOUS
  <2>1. CASE Hash \/ HashChunk \/ Edit \/ Open \/ Send \/ Die
    BY <2>1, StreamAssumption, SenderTypes
  <2>2. CASE RecvHeader \/ LostHeader
    BY <2>2, StreamAssumption, HeaderTypes
  <2>3. CASE RecvData \/ LostData
    BY <2>3, StreamAssumption, DataTypes
  <2>4. CASE UNCHANGED vars
    BY <2>4 DEF vars, md5Vars, senderVars, receiverVars, TypeInv, TypeOK
  <2> QED
    BY <2>1, <2>2, <2>3, <2>4 DEF Next, SendFile, RecvFile
<1>3. TypeInv => TypeOK
  BY DEF TypeInv
<1> QED
  BY <1>1, <1>2, <1>3, StreamAssumption, DigestKept, PTL DEF Spec
=============================================================================
