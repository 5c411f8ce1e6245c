----------------------------- MODULE MCSelfTest ----------------------------
(***************************************************************************)
(* Bytes of one bit and lanes of four: a batch has up to four offsets, as  *)
(* half a lane has in the code, and a digest 16 bits.                      *)
(***************************************************************************)
EXTENDS SelfTest

(* Every lane changes every word of the digest.                            *)
MCHash(s) ==
  LET t == SubSeq(s, 1, 17)
      word(k) ==
        LET sum[i \in 0 .. 17] ==
              IF i = 0 THEN k ELSE sum[i - 1] + (2 * (i + k) + 1) * t[i]
        IN  sum[17] % (Base ^ Lane)
  IN  <<word(1), word(2), word(3), word(4)>>

MCAddresses == {Bytes(n, AddressLen) : n \in {5, 700}}
MCWords == {Bytes(n, WordLen) : n \in {9, 51966}}
MCNonces == {0, 7, 30000, 65521}
MCTargets == {20000, 40000, 65535}

Plain == JobLine(Bytes(5, 10), Bytes(9, 16), Bytes(9, 16), 40000, 16, 2)
MCOtherLines ==
  { [kind |-> "unknown"],
    [Plain EXCEPT !.count = 0], [Plain EXCEPT !.count = HalfLane + 1],
    [Plain EXCEPT !.start = Bytes(17, 16)],
    [Plain EXCEPT !.target = Zeros(17)],
    [Plain EXCEPT !.prev = <<1, 0>>],
    [kind |-> "digest", address |-> Zeros(11), prev |-> <<>>, anchor |-> <<>>,
     nonce |-> <<>>] }
=============================================================================
