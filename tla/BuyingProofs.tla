---------------------------- MODULE BuyingProofs ----------------------------
(***************************************************************************)
(* Proofs about Buying: for any wallets, recipients and amounts, and any   *)
(* tasks and pools.                                                        *)
(***************************************************************************)
EXTENDS Buying, TLAPS

(***************************************************************************)
(* Quotes                                                                  *)
(***************************************************************************)

\* A quotient times its divisor is not above the dividend.
LEMMA Quotient ==
  ASSUME NEW a \in Nat, NEW b \in Nat, b > 0
  PROVE  a \div b \in Nat /\ (a \div b) * b <= a
  BY SMTT(30)

\* A common factor can be cancelled.
LEMMA Cancel ==
  ASSUME NEW q \in Nat, NEW a \in Nat, NEW c \in Nat, c > 0, q * c <= a * c
  PROVE  q <= a
  <1>1. CASE q > a
    <2>1. q \in Nat /\ q >= a + 1 BY <1>1
    <2>2. q * c >= (a + 1) * c BY <2>1, SMTT(30)
    <2>3. (a + 1) * c = a * c + c BY SMTT(30)
    <2> QED BY <2>2, <2>3, SMTT(30)
  <1> QED BY <1>1

\* A quote is a number, and within what is asked of it.
LEMMA QuoteBound ==
  ASSUME NEW from \in Nat, NEW to \in Nat, NEW amount \in Nat
  PROVE  /\ ConstantProduct(from, to, amount) \in Nat
         /\ ConstantProduct(from, to, amount) * (from + amount) <= to * amount
         /\ ConstantProduct(from, to, amount) <= to
  <1>1. CASE from = 0
    <2>1. ConstantProduct(from, to, amount) = 0 BY <1>1 DEF ConstantProduct
    <2>2. to * amount \in Nat BY SMTT(30)
    <2> QED BY <2>1, <2>2, SMTT(30)
  <1>2. CASE from # 0
    <2> DEFINE q == (to * amount) \div (from + amount)
    <2>1. to * amount \in Nat BY SMTT(30)
    <2>2. from + amount \in Nat /\ from + amount > 0 BY <1>2
    <2>3. q \in Nat /\ q * (from + amount) <= to * amount BY <2>1, <2>2, Quotient
    <2>4. to * amount <= to * (from + amount)
      <3>1. to * (from + amount) = to * from + to * amount BY SMTT(30)
      <3>2. to * from \in Nat BY SMTT(30)
      <3> QED BY <3>1, <3>2, <2>1, SMTT(30)
    <2>5. q * (from + amount) \in Nat /\ to * (from + amount) \in Nat
      BY <2>2, <2>3, SMTT(30)
    <2>6. q * (from + amount) <= to * (from + amount)
      <3> HIDE DEF q
      <3> QED BY <2>1, <2>3, <2>4, <2>5, SMTT(30)
    <2>7. q <= to
      <3> HIDE DEF q
      <3> QED BY <2>2, <2>3, <2>6, Cancel
    <2>8. ConstantProduct(from, to, amount) = q BY <1>2 DEF ConstantProduct
    <2> HIDE DEF q
    <2> QED BY <2>3, <2>7, <2>8
  <1> QED BY <1>1, <1>2

\* QuotesSafe: neither sol_to_token_quote nor token_to_sol_quote promises more
\* than the curve has, and no amount of SOL is quoted tokens worth more than it.
THEOREM SafeQuotes == QuotesSafe
  <1> SUFFICES ASSUME NEW sol \in Nat, NEW token \in Nat, NEW amount \in Nat
               PROVE  LET tokens == ConstantProduct(sol, token, amount)
                      IN  tokens <= token /\ ConstantProduct(token, sol, tokens) <= amount
    BY PumpfunAssumption DEF QuotesSafe
  <1> DEFINE e == ConstantProduct(sol, token, amount)
             q == ConstantProduct(token, sol, e)
  <1>1. e \in Nat /\ e * (sol + amount) <= token * amount /\ e <= token BY QuoteBound
  <1>2. q \in Nat /\ q * (token + e) <= sol * e /\ q <= sol BY <1>1, QuoteBound
  <1>3. CASE token = 0
    <2>1. q = 0 BY <1>3 DEF ConstantProduct
    <2> QED BY <2>1, <1>1
  <1>4. CASE token # 0
    <2> HIDE DEF e, q
    <2>1. token + e \in Nat /\ token + e > 0 BY <1>1, <1>4
    <2>2. sol * e <= amount * (token + e)
      <3>1. e * (sol + amount) = sol * e + amount * e BY <1>1, SMTT(30)
      <3>2. amount * (token + e) = token * amount + amount * e BY <1>1, SMTT(30)
      <3>3. /\ sol * e \in Nat /\ amount * e \in Nat /\ token * amount \in Nat
        BY <1>1, SMTT(30)
      <3> QED BY <1>1, <3>1, <3>2, <3>3, SMTT(30)
    <2>3. /\ q * (token + e) \in Nat /\ amount * (token + e) \in Nat /\ sol * e \in Nat
      BY <1>1, <1>2, <2>1, SMTT(30)
    <2>4. q * (token + e) <= amount * (token + e) BY <1>2, <2>2, <2>3, SMTT(30)
    <2>5. q <= amount BY <1>2, <2>1, <2>4, Cancel
    <2> QED BY <1>1, <2>5 DEF e, q
  <1> QED BY <1>3, <1>4

(***************************************************************************)
(* Sales                                                                   *)
(***************************************************************************)

\* What is sold, from the accounts taken over.
LEMMA SaleFrom ==
  ASSUME NEW mirror, NEW fee, NEW buyback,
         mirror[1] = <<"global">>, mirror[2] = <<"fee", fee>>, mirror[3] = <<"mint">>,
         mirror[4] = <<"curve">>, mirror[5] = <<"curve_ata">>,
         SellTaken(mirror) = << <<"vault">>, <<"buyback", buyback>>, <<"authority">> >>
  PROVE  SellFromMirror(mirror, FALSE) = SellLayout(Us, fee, buyback)
  <1> DEFINE t == SellTaken(mirror)
  <1>1. t[1] = <<"vault">> /\ t[2] = <<"buyback", buyback>> /\ t[3] = <<"authority">>
    OBVIOUS
  <1>2. SellFromMirror(mirror, FALSE) =
          << mirror[1], mirror[2], mirror[3], mirror[4], mirror[5], <<"ata", Us>>,
             <<"wallet", Us>>, <<"system">>, t[1], <<"token_program">>, <<"events">>,
             <<"program">>, <<"fee_config">>, <<"fee_program">>, t[2], t[3] >>
    BY DEF SellFromMirror
  <1> HIDE DEF t
  <1> QED BY <1>1, <1>2 DEF SellLayout

\* The accounts of a SELL, from those of a BUY.
LEMMA SaleOfBuy ==
  ASSUME NEW w, NEW fee, NEW buyback
  PROVE  SellFromMirror(BuyLayout(w, fee, buyback), FALSE) = SellLayout(Us, fee, buyback)
  <1>1. Len(BuyLayout(w, fee, buyback)) = 18 BY DEF BuyLayout
  <1>2. SellTaken(BuyLayout(w, fee, buyback)) = << <<"vault">>, <<"buyback", buyback>>, <<"authority">> >>
    <2>1. /\ BuyLayout(w, fee, buyback)[10] = <<"vault">>
          /\ BuyLayout(w, fee, buyback)[17] = <<"buyback", buyback>>
          /\ BuyLayout(w, fee, buyback)[18] = <<"authority">>
      BY DEF BuyLayout
    <2> QED BY <1>1, <2>1 DEF SellTaken
  <1>3. /\ BuyLayout(w, fee, buyback)[1] = <<"global">> /\ BuyLayout(w, fee, buyback)[2] = <<"fee", fee>>
        /\ BuyLayout(w, fee, buyback)[3] = <<"mint">> /\ BuyLayout(w, fee, buyback)[4] = <<"curve">>
        /\ BuyLayout(w, fee, buyback)[5] = <<"curve_ata">>
    BY DEF BuyLayout
  <1> QED BY <1>2, <1>3, SaleFrom

\* The accounts of a SELL, from those of another.
LEMMA SaleOfSell ==
  ASSUME NEW w, NEW fee, NEW buyback
  PROVE  SellFromMirror(SellLayout(w, fee, buyback), FALSE) = SellLayout(Us, fee, buyback)
  <1>1. Len(SellLayout(w, fee, buyback)) = 16 BY DEF SellLayout
  <1>2. SellTaken(SellLayout(w, fee, buyback)) = << <<"vault">>, <<"buyback", buyback>>, <<"authority">> >>
    <2>1. /\ SellLayout(w, fee, buyback)[9] = <<"vault">>
          /\ SellLayout(w, fee, buyback)[15] = <<"buyback", buyback>>
          /\ SellLayout(w, fee, buyback)[16] = <<"authority">>
      BY DEF SellLayout
    <2> QED BY <1>1, <2>1 DEF SellTaken
  <1>3. /\ SellLayout(w, fee, buyback)[1] = <<"global">> /\ SellLayout(w, fee, buyback)[2] = <<"fee", fee>>
        /\ SellLayout(w, fee, buyback)[3] = <<"mint">> /\ SellLayout(w, fee, buyback)[4] = <<"curve">>
        /\ SellLayout(w, fee, buyback)[5] = <<"curve_ata">>
    BY DEF SellLayout
  <1> QED BY <1>2, <1>3, SaleFrom

\* In cashback mode the accumulator is put where CashbackLayout has it.
LEMMA CashbackSale ==
  ASSUME NEW mirror, NEW fee, NEW buyback,
         SellFromMirror(mirror, FALSE) = SellLayout(Us, fee, buyback)
  PROVE  SellFromMirror(mirror, TRUE) = CashbackLayout(Us, fee, buyback)
  BY DEF SellFromMirror, CashbackLayout

\* SalesPlaced: what was bought is sold with the accounts of the buy, each in its
\* place, in cashback mode too, for whatever wallet was copied.
THEOREM PlacedSales == SalesPlaced
  <1> SUFFICES ASSUME NEW w \in Wallets, NEW fee \in Fees, NEW buyback \in Buybacks,
                      NEW mirror \in {BuyLayout(w, fee, buyback), SellLayout(w, fee, buyback)}
               PROVE  /\ SellFromMirror(mirror, FALSE) = SellLayout(Us, fee, buyback)
                      /\ SellFromMirror(mirror, TRUE) = CashbackLayout(Us, fee, buyback)
    BY DEF SalesPlaced
  <1>1. SellFromMirror(mirror, FALSE) = SellLayout(Us, fee, buyback)
    <2>1. CASE mirror = BuyLayout(w, fee, buyback) BY <2>1, SaleOfBuy
    <2>2. CASE mirror = SellLayout(w, fee, buyback) BY <2>2, SaleOfSell
    <2> QED BY <2>1, <2>2
  <1> QED BY <1>1, CashbackSale

(***************************************************************************)
(* Buys                                                                    *)
(***************************************************************************)

\* No other address is a volume accumulator.
LEMMA NotVolume ==
  ASSUME NEW w
  PROVE  /\ \A a : <<a>> # Volume(w)
         /\ \A x : <<"fee", x>> # Volume(w) /\ <<"buyback", x>> # Volume(w)
  <1>1. ASSUME NEW a PROVE <<a>> # Volume(w)
    <2>1. Len(<<a>>) = 1 OBVIOUS
    <2>2. Len(Volume(w)) = 2 BY DEF Volume
    <2> QED BY <2>1, <2>2
  <1>2. Volume(w)[1] = "volume" BY DEF Volume
  <1>3. ASSUME NEW x PROVE <<"fee", x>> # Volume(w) /\ <<"buyback", x>> # Volume(w)
    <2>1. <<"fee", x>>[1] = "fee" /\ <<"buyback", x>>[1] = "buyback" OBVIOUS
    <2>2. "fee" # "volume" /\ "buyback" # "volume" OBVIOUS
    <2> QED BY <1>2, <2>1, <2>2
  <1> QED BY <1>1, <1>3

\* Our accounts in the place of another wallet's: those of our own BUY.
LEMMA ReplacedBuy ==
  ASSUME NEW w, NEW fee, NEW buyback, NEW source
  PROVE  Replaced(BuyLayout(w, fee, buyback), source) = BuyLayout(Us, fee, buyback)
  <1> DEFINE m == BuyLayout(w, fee, buyback)
             o == BuyLayout(Us, fee, buyback)
             r == Replaced(m, source)
  <1>1. DOMAIN m = 1..18 /\ DOMAIN o = 1..18 /\ Len(m) = 18 BY DEF BuyLayout
  <1>2. MirrorUser(m, source) = w
    <2>1. m[7][2] = w BY DEF BuyLayout
    <2> HIDE DEF m
    <2> QED BY <1>1, <2>1 DEF MirrorUser
  <1>3. r = [i \in 1..18 |-> IF i = 6 THEN <<"ata", Us>>
                             ELSE IF i = 7 THEN <<"wallet", Us>>
                             ELSE IF m[i] = Volume(w) THEN Volume(Us)
                             ELSE m[i]]
    <2> HIDE DEF m
    <2> QED BY <1>1, <1>2 DEF Replaced
  <1>4. ASSUME NEW i \in 1..18 PROVE r[i] = o[i]
    <2>1. CASE i = 6
      <3>1. o[6] = <<"ata", Us>> BY DEF BuyLayout
      <3> HIDE DEF m, o, r
      <3> QED BY <1>3, <2>1, <3>1
    <2>2. CASE i = 7
      <3>1. o[7] = <<"wallet", Us>> BY DEF BuyLayout
      <3> HIDE DEF m, o, r
      <3> QED BY <1>3, <2>2, <3>1
    <2>3. CASE i = 14
      <3>1. o[14] = Volume(Us) /\ m[14] = Volume(w) BY DEF BuyLayout
      <3> HIDE DEF m, o, r
      <3> QED BY <1>3, <2>3, <3>1
    <2>4. CASE i \notin {6, 7, 14}
      <3>1. o[i] = m[i] BY <2>4 DEF BuyLayout
      <3>2. m[i] # Volume(w) BY <2>4, NotVolume DEF BuyLayout
      <3> HIDE DEF m, o, r
      <3> QED BY <1>3, <2>4, <3>1, <3>2
    <2> QED BY <2>1, <2>2, <2>3, <2>4
  <1>5. o = [i \in 1..18 |-> o[i]] BY <1>1 DEF BuyLayout
  <1> HIDE DEF m, o, r
  <1>6. r = o BY <1>3, <1>4, <1>5
  <1> QED BY <1>6 DEF m, o, r

\* And of those of another's SELL, our own SELL.
LEMMA ReplacedSell ==
  ASSUME NEW w, NEW fee, NEW buyback, NEW source
  PROVE  Replaced(SellLayout(w, fee, buyback), source) = SellLayout(Us, fee, buyback)
  <1> DEFINE m == SellLayout(w, fee, buyback)
             o == SellLayout(Us, fee, buyback)
             r == Replaced(m, source)
  <1>1. DOMAIN m = 1..16 /\ DOMAIN o = 1..16 /\ Len(m) = 16 BY DEF SellLayout
  <1>2. MirrorUser(m, source) = w
    <2>1. m[7][2] = w BY DEF SellLayout
    <2> HIDE DEF m
    <2> QED BY <1>1, <2>1 DEF MirrorUser
  <1>3. r = [i \in 1..16 |-> IF i = 6 THEN <<"ata", Us>>
                             ELSE IF i = 7 THEN <<"wallet", Us>>
                             ELSE IF m[i] = Volume(w) THEN Volume(Us)
                             ELSE m[i]]
    <2> HIDE DEF m
    <2> QED BY <1>1, <1>2 DEF Replaced
  <1>4. ASSUME NEW i \in 1..16 PROVE r[i] = o[i]
    <2>1. CASE i = 6
      <3>1. o[6] = <<"ata", Us>> BY DEF SellLayout
      <3> HIDE DEF m, o, r
      <3> QED BY <1>3, <2>1, <3>1
    <2>2. CASE i = 7
      <3>1. o[7] = <<"wallet", Us>> BY DEF SellLayout
      <3> HIDE DEF m, o, r
      <3> QED BY <1>3, <2>2, <3>1
    <2>3. CASE i \notin {6, 7}
      <3>1. o[i] = m[i] BY <2>3 DEF SellLayout
      <3>2. m[i] # Volume(w) BY <2>3, NotVolume DEF SellLayout
      <3> HIDE DEF m, o, r
      <3> QED BY <1>3, <2>3, <3>1, <3>2
    <2> QED BY <2>1, <2>2, <2>3
  <1>5. o = [i \in 1..16 |-> o[i]] BY <1>1 DEF SellLayout
  <1> HIDE DEF m, o, r
  <1>6. r = o BY <1>3, <1>4, <1>5
  <1> QED BY <1>6 DEF m, o, r

\* Of the accounts of another's BUY our own BUY is built.
LEMMA FromBuy ==
  ASSUME NEW w, NEW fee, NEW buyback, NEW source
  PROVE  FromMirror(BuyLayout(w, fee, buyback), source) = BuyLayout(Us, fee, buyback)
  <1> DEFINE m == BuyLayout(w, fee, buyback)
             o == BuyLayout(Us, fee, buyback)
  <1>1. Replaced(m, source) = o BY ReplacedBuy
  <1>2. /\ Len(o) = 18
        /\ o[1] = <<"global">> /\ o[2] = <<"fee", fee>> /\ o[3] = <<"mint">>
        /\ o[4] = <<"curve">> /\ o[5] = <<"curve_ata">> /\ o[9] = <<"token_program">>
        /\ o[10] = <<"vault">> /\ o[17] = <<"buyback", buyback>> /\ o[18] = <<"authority">>
    BY DEF BuyLayout
  <1> HIDE DEF m, o
  <1>3. Taken(o) = << <<"vault">>, <<"token_program">>, <<"buyback", buyback>>, <<"authority">> >>
    BY <1>2 DEF Taken
  <1>4. FromMirror(m, source) =
          << o[1], o[2], o[3], o[4], o[5], <<"ata", Us>>, <<"wallet", Us>>, <<"system">>,
             Taken(o)[2], Taken(o)[1], <<"events">>, <<"program">>, <<"global_volume">>,
             Volume(Us), <<"fee_config">>, <<"fee_program">>, Taken(o)[3], Taken(o)[4] >>
    BY <1>1 DEF FromMirror
  <1>5. /\ Taken(o)[1] = <<"vault">> /\ Taken(o)[2] = <<"token_program">>
        /\ Taken(o)[3] = <<"buyback", buyback>> /\ Taken(o)[4] = <<"authority">>
    BY <1>3
  <1>6. FromMirror(m, source) = BuyLayout(Us, fee, buyback)
    BY <1>2, <1>4, <1>5 DEF BuyLayout
  <1> QED BY <1>6 DEF m

\* And of those of another's SELL.
LEMMA FromSell ==
  ASSUME NEW w, NEW fee, NEW buyback, NEW source
  PROVE  FromMirror(SellLayout(w, fee, buyback), source) = BuyLayout(Us, fee, buyback)
  <1> DEFINE m == SellLayout(w, fee, buyback)
             o == SellLayout(Us, fee, buyback)
  <1>1. Replaced(m, source) = o BY ReplacedSell
  <1>2. /\ Len(o) = 16
        /\ o[1] = <<"global">> /\ o[2] = <<"fee", fee>> /\ o[3] = <<"mint">>
        /\ o[4] = <<"curve">> /\ o[5] = <<"curve_ata">> /\ o[9] = <<"vault">>
        /\ o[10] = <<"token_program">> /\ o[15] = <<"buyback", buyback>>
        /\ o[16] = <<"authority">>
    BY DEF SellLayout
  <1> HIDE DEF m, o
  <1>3. Taken(o) = << <<"vault">>, <<"token_program">>, <<"buyback", buyback>>, <<"authority">> >>
    BY <1>2 DEF Taken
  <1>4. FromMirror(m, source) =
          << o[1], o[2], o[3], o[4], o[5], <<"ata", Us>>, <<"wallet", Us>>, <<"system">>,
             Taken(o)[2], Taken(o)[1], <<"events">>, <<"program">>, <<"global_volume">>,
             Volume(Us), <<"fee_config">>, <<"fee_program">>, Taken(o)[3], Taken(o)[4] >>
    BY <1>1 DEF FromMirror
  <1>5. /\ Taken(o)[1] = <<"vault">> /\ Taken(o)[2] = <<"token_program">>
        /\ Taken(o)[3] = <<"buyback", buyback>> /\ Taken(o)[4] = <<"authority">>
    BY <1>3
  <1>6. FromMirror(m, source) = BuyLayout(Us, fee, buyback)
    BY <1>2, <1>4, <1>5 DEF BuyLayout
  <1> QED BY <1>6 DEF m

\* Where the derived addresses can be compared, they are those of a BUY.
LEMMA StandardAgrees ==
  ASSUME NEW curve, NEW fee, NEW buyback, NEW slot \in 0..17 \ Trusted
  PROVE  BuyLayout(Us, fee, buyback)[slot + 1] = StandardKeys(curve)[slot + 1]
  <1> DEFINE rec == IF curve.mayhem THEN "mayhem" ELSE OurFee
             k == BuyLayout(Us, rec, OurBuyback)
             o == BuyLayout(Us, fee, buyback)
  <1>1. slot + 1 \in 1..18 /\ slot + 1 \notin {2, 10, 17, 18} BY DEF Trusted
  <1>2. o[slot + 1] = k[slot + 1]
    <2> HIDE DEF rec
    <2> QED BY <1>1 DEF BuyLayout
  <1>3. StandardKeys(curve) = [k EXCEPT ![10] = <<"old_vault">>, ![18] = <<"none">>]
    BY DEF StandardKeys
  <1>4. DOMAIN k = 1..18
    <2> HIDE DEF rec
    <2> QED BY DEF BuyLayout
  <1> HIDE DEF k, o
  <1>5. StandardKeys(curve)[slot + 1] = k[slot + 1] BY <1>1, <1>3, <1>4
  <1> QED BY <1>2, <1>5 DEF o

\* What is built of accounts that pass as a mirror whenever the standard buy can
\* be built, and of which a buy in our name is made, is that buy or nothing.
LEMMA MirrorOrNothing ==
  ASSUME NEW mirror, NEW fee, NEW buyback, NEW source, NEW curve, NEW direct, NEW data,
         mirror # <<>>,
         FromMirror(mirror, source) = BuyLayout(Us, fee, buyback),
         curve # NoCurve /\ curve.named => ValidMirror(mirror, source, curve),
         BuyResult(mirror, source, curve, direct, data).ok
  PROVE  BuyResult(mirror, source, curve, direct, data).accounts = BuyLayout(Us, fee, buyback)
  <1> DEFINE b == BuyLayout(Us, fee, buyback)
             r == BuyResult(mirror, source, curve, direct, data)
  <1>1. ~Failed.ok /\ Built(b).accounts = b BY DEF Failed, Built
  <1>2. r \in {Failed, Built(b)}
    <2>1. Cached(mirror, source, curve) \in {Failed, Built(b)} BY DEF Cached
    <2>2. Target(mirror, source, data) \in {Failed, Built(b)} BY DEF Target
    <2>3. CASE curve = NoCurve BY <2>2, <2>3 DEF BuyResult
    <2>4. CASE curve # NoCurve /\ ValidMirror(mirror, source, curve)
      BY <2>1, <2>4 DEF BuyResult
    <2>5. CASE curve # NoCurve /\ ~ValidMirror(mirror, source, curve)
      <3>1. ~curve.named BY <2>5
      <3>2. Standard(curve) = Failed BY <3>1 DEF Standard
      <3> QED BY <2>5, <3>2 DEF BuyResult
    <2> QED BY <2>3, <2>4, <2>5
  <1> HIDE DEF b, r
  <1>3. r.ok BY DEF r
  <1>4. r = Built(b) BY <1>1, <1>2, <1>3
  <1> QED BY <1>1, <1>4 DEF b, r

\* A BUY passes as a mirror whenever the curve names its creator.
LEMMA BuyPasses ==
  ASSUME NEW w, NEW fee, NEW buyback, NEW source, NEW curve, curve # NoCurve, curve.named
  PROVE  ValidMirror(BuyLayout(w, fee, buyback), source, curve)
  <1> DEFINE m == BuyLayout(w, fee, buyback)
             o == BuyLayout(Us, fee, buyback)
  <1>1. Len(m) = 18 BY DEF BuyLayout
  <1>2. Replaced(m, source) = o BY ReplacedBuy
  <1> HIDE DEF m
  <1>3. ~Differs(o, StandardKeys(curve), Trusted)
    <2> HIDE DEF o
    <2>1. \A slot \in 0..17 \ Trusted : o[slot + 1] = StandardKeys(curve)[slot + 1]
      BY StandardAgrees DEF o
    <2> QED BY <2>1 DEF Differs
  <1> HIDE DEF o
  <1>4. ValidMirror(m, source, curve) BY <1>1, <1>2, <1>3 DEF ValidMirror
  <1> QED BY <1>4 DEF m

\* So does a SELL, of which nothing is compared.
LEMMA SellPasses ==
  ASSUME NEW w, NEW fee, NEW buyback, NEW source, NEW curve
  PROVE  ValidMirror(SellLayout(w, fee, buyback), source, curve)
  <1>1. Len(SellLayout(w, fee, buyback)) = 16 BY DEF SellLayout
  <1> QED BY <1>1 DEF ValidMirror

\* A BUY of another mint does not, because its mint is compared.
LEMMA OtherMintFails ==
  ASSUME NEW w, NEW fee, NEW buyback, NEW source, NEW curve
  PROVE  ~ValidMirror([BuyLayout(w, fee, buyback) EXCEPT ![3] = <<"other_mint">>], source, curve)
  <1> DEFINE b == BuyLayout(w, fee, buyback)
             m == [b EXCEPT ![3] = <<"other_mint">>]
             r == Replaced(m, source)
  <1>1. DOMAIN b = 1..18 BY DEF BuyLayout
  <1>2. b \in Seq({b[i] : i \in 1..18}) /\ Len(b) = 18 BY DEF BuyLayout
  <1> HIDE DEF b
  <1>3. DOMAIN m = 1..18 /\ m[3] = <<"other_mint">> BY <1>1
  <1>4. Len(m) = 18 BY <1>2, <1>1
  <1> HIDE DEF m
  <1>5. r[3] = <<"other_mint">> BY <1>3, NotVolume DEF Replaced
  <1> HIDE DEF r
  <1>6. <<"other_mint">> # <<"mint">>
    <2>1. <<"other_mint">>[1] = "other_mint" /\ <<"mint">>[1] = "mint" OBVIOUS
    <2>2. "other_mint" # "mint" OBVIOUS
    <2> QED BY <2>1, <2>2
  <1>7. BuyLayout(Us, OurFee, OurBuyback)[3] = <<"mint">> BY DEF BuyLayout
  <1>8. StandardKeys(curve)[3] = <<"mint">>
    <2>1. BuyLayout(Us, OurFee, OurBuyback)[2 + 1] = StandardKeys(curve)[2 + 1]
      BY StandardAgrees DEF Trusted
    <2> QED BY <1>7, <2>1
  <1>9. Differs(r, StandardKeys(curve), Trusted)
    BY <1>5, <1>6, <1>8 DEF Differs, Trusted
  <1>10. Differs(r, BuyLayout(Us, OurFee, OurBuyback), TrustedBlindly)
    BY <1>5, <1>6, <1>7 DEF Differs, TrustedBlindly
  <1>11. ~ValidMirror(m, source, curve) BY <1>4, <1>9, <1>10 DEF ValidMirror, r
  <1> QED BY <1>11 DEF m, b

\* BuysPlaced: whoever's trade triggers the buy and whatever is known of the
\* curve, what is built of the accounts of another wallet's instruction is a BUY
\* in our name with each account in its place, or nothing; and none is built of
\* the accounts of a BUY of another mint that is not for ours.
THEOREM PlacedBuys == BuysPlaced
  <1> SUFFICES ASSUME NEW w \in Wallets, NEW fee \in Fees, NEW buyback \in Buybacks
               PROVE  /\ PlacedBuy(BuyLayout(w, fee, buyback), fee, buyback)
                      /\ PlacedBuy(SellLayout(w, fee, buyback), fee, buyback)
                      /\ OwnMint([BuyLayout(w, fee, buyback) EXCEPT ![3] = <<"other_mint">>])
    BY DEF BuysPlaced
  <1> DEFINE buy == BuyLayout(w, fee, buyback)
             sell == SellLayout(w, fee, buyback)
             other == [buy EXCEPT ![3] = <<"other_mint">>]
  <1>1. Len(buy) = 18 /\ Len(sell) = 16 BY DEF BuyLayout, SellLayout
  <1> HIDE DEF buy, sell, other
  <1>2. Len(buy) # Len(<<>>) /\ Len(sell) # Len(<<>>)
    <2>1. Len(<<>>) = 0 OBVIOUS
    <2> QED BY <1>1, <2>1
  <1>3. buy # <<>> /\ sell # <<>> BY <1>2, Zenon
  <1>4. PlacedBuy(buy, fee, buyback)
    <2> SUFFICES ASSUME NEW source, NEW curve, NEW direct, NEW data,
                        BuyResult(buy, source, curve, direct, data).ok
                 PROVE  BuyResult(buy, source, curve, direct, data).accounts
                          = BuyLayout(Us, fee, buyback)
      BY DEF PlacedBuy
    <2> QED BY <1>3, FromBuy, BuyPasses, MirrorOrNothing DEF buy
  <1>5. PlacedBuy(sell, fee, buyback)
    <2> SUFFICES ASSUME NEW source, NEW curve, NEW direct, NEW data,
                        BuyResult(sell, source, curve, direct, data).ok
                 PROVE  BuyResult(sell, source, curve, direct, data).accounts
                          = BuyLayout(Us, fee, buyback)
      BY DEF PlacedBuy
    <2> QED BY <1>3, FromSell, SellPasses, MirrorOrNothing DEF sell
  <1>6. OwnMint(other)
    <2> SUFFICES ASSUME NEW source, NEW curve, NEW direct, NEW data,
                        BuyResult(other, source, curve, direct, data).ok
                 PROVE  BuyResult(other, source, curve, direct, data).accounts[3] = <<"mint">>
      BY DEF OwnMint
    <2>1. ~ValidMirror(other, source, curve) /\ ~ValidMirror(other, source, NoCurve)
      BY OtherMintFails DEF other, buy
    <2>2. BuyResult(other, source, curve, direct, data) \in {Failed, Standard(curve)}
      BY <2>1 DEF BuyResult
    <2>3. ~Failed.ok BY DEF Failed
    <2>4. StandardKeys(curve)[3] = <<"mint">>
      <3>1. BuyLayout(Us, OurFee, OurBuyback)[2 + 1] = StandardKeys(curve)[2 + 1]
        BY StandardAgrees DEF Trusted
      <3>2. BuyLayout(Us, OurFee, OurBuyback)[3] = <<"mint">> BY DEF BuyLayout
      <3> QED BY <3>1, <3>2
    <2>5. Standard(curve).ok => Standard(curve).accounts[3] = <<"mint">>
      BY <2>3, <2>4 DEF Standard, Built
    <2> QED BY <2>2, <2>3, <2>5
  <1> QED BY <1>4, <1>5, <1>6 DEF buy, sell, other

(***************************************************************************)
(* What the tasks of the intake and the position sales get of it           *)
(***************************************************************************)

\* BuyIsPlaced holds throughout: no task in execute_buy, in whatever order the
\* tasks came to be there, is given accounts that are not in their places.
THEOREM BuyPlaced == Spec => []BuyIsPlaced
  <1>1. BuyIsPlaced BY PlacedBuys DEF BuyIsPlaced
  <1> QED BY <1>1, PTL

\* SellIsPlaced holds throughout: neither is the sale of what was bought.
THEOREM SellPlaced == Spec => []SellIsPlaced
  <1>1. SellIsPlaced BY PlacedSales DEF SellIsPlaced
  <1> QED BY <1>1, PTL

\* QuotesAreSafe holds throughout: no task in execute_buy gets an unsafe quote.
THEOREM QuoteSafe == Spec => []QuotesAreSafe
  <1>1. QuotesAreSafe BY SafeQuotes DEF QuotesAreSafe
  <1> QED BY <1>1, PTL

=============================================================================
