------------------------------- MODULE IPAddress -------------------------------
(***************************************************************************)
(* The addresses and masks of rfproxy/IPAddress.cc and the byte order of   *)
(* the host they are converted on (rfproxy/endian.hh).  An address is the  *)
(* sequence of its bytes in network order, 4 or 16 of them; a mask is an   *)
(* address.  A number is the sequence of its bytes, the most significant   *)
(* one first.                                                              *)
(***************************************************************************)
EXTENDS Integers, Sequences, SequencesExt

Byte == 0..255

Order == {"big", "little"}

(* What is in memory for a number, and the number for what is in memory.   *)
(* htons, htonl, ntohs and ntohl do the same to the bytes (libc).          *)
Memory(bytes, order) == IF order = "big" THEN bytes ELSE Reverse(bytes)

Htonll_NotSwapped(v, order) ==
    IF order = "big" THEN v
    ELSE Reverse(SubSeq(v, 1, 4)) \o Reverse(SubSeq(v, 5, 8))

(* htonll, which is ntohll as well, turns the two halves one by one.       *)
Htonll(v, order) ==
    IF order = "big" THEN v
    ELSE Reverse(SubSeq(v, 5, 8)) \o Reverse(SubSeq(v, 1, 4))

Length(version) == IF version = "IPV4" THEN 4 ELSE 16

(* IPAddress(uint32_t) takes a number from memory, toUint32 puts one there.*)
FromUint32(mem, order) == Memory(mem, order)
ToUint32(data, order) == Memory(data, order)

(* IPAddress(version, prefix_len): the mask of that many leading bits.     *)
PrefixMask(version, prefix_len) ==
    [i \in 1..Length(version) |->
        LET rest == prefix_len - 8 * (i - 1)
        IN IF rest >= 8 THEN 255
           ELSE IF rest <= 0 THEN 0 ELSE (2^rest - 1) * 2^(8 - rest)]

(* The length of the run of set bits at the top of a byte.                 *)
LeadingOnes(byte) ==
    CHOOSE k \in 0..8 : /\ byte \div 2^(8 - k) = 2^k - 1
                        /\ k = 8 \/ byte \div 2^(7 - k) # 2^(k + 1) - 1

(* toPrefixLen: whole bytes, then the bits of the first that is not 0xff.  *)
ToPrefixLen(data) ==
    IF \A i \in DOMAIN data : data[i] = 255
    THEN 8 * Len(data)
    ELSE LET first == CHOOSE i \in DOMAIN data :
                         data[i] # 255 /\ \A j \in 1..i-1 : data[j] = 255
         IN 8 * (first - 1) + LeadingOnes(data[first])
===============================================================================
