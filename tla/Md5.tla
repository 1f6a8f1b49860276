--------------------------------- MODULE Md5 ---------------------------------
(***************************************************************************)
(* The MD5 of src/ftp_server/md5.c (the clients have copies of it): how    *)
(* MD5Update cuts its inputs into blocks and counts their bits, and how    *)
(* MD5Final pads.  The compression of a block is left opaque: state is the *)
(* sequence of the blocks that MD5Transform was given, so two digests are  *)
(* equal exactly if the same blocks were compressed in the same order.     *)
(*                                                                         *)
(* In the code a block has 64 bytes, a byte 8 bits and a word 2^32 values. *)
(***************************************************************************)
EXTENDS Integers, Sequences

CONSTANTS
  BlockSize,  \* the bytes of a block, 64
  Bits,       \* the bits of a byte, 8
  Word,       \* the values of an unsigned int, 2^32
  Junk        \* a byte of the buffer that was never written

\* count[0], in bits, says where in the buffer the next byte belongs.
ASSUME Md5Assumption ==
  /\ BlockSize \in Nat /\ BlockSize > 2
  /\ Bits \in Nat \ {0}
  /\ Word \in Nat \ {0} /\ Word % (BlockSize * Bits) = 0

ZERO == <<"byte", 0>>
BIT == <<"byte", 128>>
PADDING == [i \in 1 .. BlockSize |-> IF i = 1 THEN BIT ELSE ZERO]

\* The eight bytes of the two counters are one byte for each counter here.
MD5Encode(count) == <<<<"count", count[1]>>, <<"count", count[2]>>>>
CountSize == 2

MD5Transform(state, block) == Append(state, block)

\* The buffer of the context is not initialised.
MD5Init == [count |-> <<0, 0>>, state |-> <<>>, buffer |-> [i \in 1 .. BlockSize |-> Junk]]

\* memcpy(&buffer[index], bytes, Len(bytes))
Memcpy(buffer, index, bytes) ==
  [i \in DOMAIN buffer |->
     IF i \in index + 1 .. index + Len(bytes) THEN bytes[i - index] ELSE buffer[i]]

Index(context) == (context.count[1] \div Bits) % BlockSize

\* Mutant of Count: the carry out of count[0] is lost.
CountNoCarry(count, inputlen) ==
  <<(count[1] + inputlen * Bits) % Word, (count[2] + (inputlen * Bits) \div Word) % Word>>

\* count[0] += inputlen << 3, the carry, and count[1] += inputlen >> 29.
Count(count, inputlen) ==
  LET low == (inputlen * Bits) % Word
      sum == (count[1] + low) % Word
      carry == IF sum < low THEN 1 ELSE 0
  IN <<sum, (count[2] + carry + (inputlen * Bits) \div Word) % Word>>

\* The bytes from + 1 .. from + BlockSize of input.
BlockAt(input, from) == SubSeq(input, from + 1, from + BlockSize)

MD5Update(context, input) ==
  LET inputlen == Len(input)
      index == Index(context)
      partlen == BlockSize - index
      more == (inputlen - partlen) \div BlockSize  \* the rounds of the loop
      i == partlen + more * BlockSize
      first == Memcpy(context.buffer, index, SubSeq(input, 1, partlen))
      blocks == [k \in 1 .. more |-> BlockAt(input, partlen + (k - 1) * BlockSize)]
  IN IF inputlen >= partlen
       THEN [count |-> Count(context.count, inputlen),
             state |-> MD5Transform(context.state, first) \o blocks,
             buffer |-> Memcpy(first, 0, SubSeq(input, i + 1, inputlen))]
       ELSE [context EXCEPT !.count = Count(@, inputlen),
                            !.buffer = Memcpy(@, index, input)]

\* The digest.  The bits are encoded before the padding is counted.
MD5Final(context) ==
  LET index == Index(context)
      room == BlockSize - CountSize
      padlen == IF index < room THEN room - index ELSE BlockSize + room - index
      padded == MD5Update(context, SubSeq(PADDING, 1, padlen))
  IN MD5Update(padded, MD5Encode(context.count)).state

-----------------------------------------------------------------------------
(* What MD5 is: the message, one bit, as few zeros as make whole blocks,   *)
(* and the number of its bits; cut into blocks.                               *)

Blocks(bytes) ==
  [k \in 1 .. Len(bytes) \div BlockSize |-> BlockAt(bytes, (k - 1) * BlockSize)]

Padded(bytes) ==
  LET bits == Len(bytes) * Bits
      zeros == (-(Len(bytes) + 1 + CountSize)) % BlockSize
  IN bytes \o <<BIT>> \o [i \in 1 .. zeros |-> ZERO]
       \o MD5Encode(<<bits % Word, (bits \div Word) % Word>>)

Digest(bytes) == Blocks(Padded(bytes))
=============================================================================
