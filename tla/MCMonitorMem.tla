---------------------------- MODULE MCMonitorMem ----------------------------
(* MonitorMem with bytes of one digit in base 4, addresses of three digits *)
(* (two banks of four bytes), pages of four bytes and four SFRs: 4 is PCON *)
(* with MEMSEL of weight 2, 5 is DPX, 6 is not writable.                   *)
EXTENDS MonitorMem

Args1(addresses) == {<<a>> : a \in addresses}
Args2(addresses, values) == {<<a, v>> : a \in addresses, v \in values}

(* An address in each region and bank, at and before the end of a bank or  *)
(* page, with the bit that is not printed, and in both halves of the SFRs. *)
Good ==
  { <<0>>, <<1, 3>>, <<2, 1>>, <<1, 0, 1>>, <<1, 3, 2>>,
    <<2, 0, 0>>, <<0, X, 0, 2, 1, 3>>, <<2, 2, 1>>,
    <<3, 1, 0>>, <<3, 1, 2>>, <<3, 3, 3>> }
Bad == { <<4>>, <<1, 0, 0, 0>>, <<1, 0, 0, 0, 0>> }

OneByte == { <<0>>, <<3>>, <<0, 0, 0, 2>> }
TooMuch == { <<1, 0>>, <<1, 0, 0>>, <<3, X>> }
Word    == { <<0, X, 3, 0, 1, 2>>, <<1, 2, 3>> }

Line(w, s, A) == {[write |-> w, size |-> s, args |-> a] : a \in A}

MCLines ==
  Line(FALSE, 1, Args1(Bad) \cup {<<>>}) \cup Line(FALSE, 4, Args1(Good))
    \cup Line(TRUE, 1, Args2(Good, OneByte \cup TooMuch) \cup Args1({<<0>>}))
    \cup Line(TRUE, 2, Args2({<<1, 3>>, <<2, 3, 2>>, <<3, 1, 0>>}, {<<1, 3>>, <<1, 0, 0>>}))
    \cup Line(TRUE, 4, Args2(Good, Word))

MCContents ==
  {[l \in Location |-> IF l[1] = "SFR" /\ l[3] \in {DPX, PCON} THEN 0
                       ELSE (l[2] + l[3] + (IF l[1] \in {"CODE", "PDATA"} THEN 2 ELSE 1)) % ByteTop]}
=============================================================================
