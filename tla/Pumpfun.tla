------------------------------ MODULE Pumpfun ------------------------------
(***************************************************************************)
(* What a copied buy is made of (PumpfunProcessor, and the end of          *)
(* execute_buy): the accounts of a Pump.fun instruction, taken over from   *)
(* the instruction that is copied with our own wallet in the place of its  *)
(* user's; the checks that decide whether they can be taken over; the      *)
(* quotes; and the sale built from the same accounts later on.             *)
(*                                                                         *)
(* All of it is for one mint.  An address is a tuple that says what it is  *)
(* the address of; an instruction's accounts are the sequence of them, and *)
(* the code's slot i is the element i + 1.  Amounts are abstracted, but in *)
(* the quotes.                                                             *)
(***************************************************************************)
EXTENDS Integers, Sequences

CONSTANTS
  Wallets, Us,       \* those that are copied, and ours
  Fees, OurFee,      \* recipients of the fee, and the one the bot names itself
  Buybacks, OurBuyback,  \* recipients of the buyback fee, likewise
  MaxReserve         \* bound on reserves and amounts

ASSUME PumpfunAssumption ==
  /\ Us \notin Wallets /\ OurFee \in Fees /\ OurBuyback \in Buybacks /\ MaxReserve \in Nat

(***************************************************************************)
(* Instructions on the chain, of any wallet                                *)
(***************************************************************************)

\* user_volume_accumulator
Volume(w) == <<"volume", w>>

\* PUMPFUN_BUY_ACCOUNT_LABELS
BuyLayout(w, fee, buyback) ==
  << <<"global">>, <<"fee", fee>>, <<"mint">>, <<"curve">>, <<"curve_ata">>, <<"ata", w>>,
     <<"wallet", w>>, <<"system">>, <<"token_program">>, <<"vault">>, <<"events">>, <<"program">>,
     <<"global_volume">>, Volume(w), <<"fee_config">>, <<"fee_program">>, <<"buyback", buyback>>,
     <<"authority">> >>

SellLayout(w, fee, buyback) ==
  << <<"global">>, <<"fee", fee>>, <<"mint">>, <<"curve">>, <<"curve_ata">>, <<"ata", w>>,
     <<"wallet", w>>, <<"system">>, <<"vault">>, <<"token_program">>, <<"events">>, <<"program">>,
     <<"fee_config">>, <<"fee_program">>, <<"buyback", buyback>>, <<"authority">> >>

\* For a mint in cashback mode, with the user's volume accumulator.
CashbackLayout(w, fee, buyback) ==
  [i \in 1..17 |-> IF i < 15 THEN SellLayout(w, fee, buyback)[i]
                  ELSE IF i = 15 THEN Volume(w)
                  ELSE SellLayout(w, fee, buyback)[i - 1]]

(***************************************************************************)
(* Our own accounts in the place of another wallet's                       *)
(***************************************************************************)

\* Mutation of MirrorUser: the wallet whose trade is copied now.
MirrorUserNow(mirror, source) == source

\* effective_source: who made the instruction that is copied; source is the
\* wallet of the trade that triggers the buy, which may reuse another's accounts.
MirrorUser(mirror, source) ==
  IF Len(mirror) > 6 THEN mirror[7][2] ELSE source

\* replace_user_pdas
Replaced(mirror, source) ==
  [i \in DOMAIN mirror |->
     IF i = 6 THEN <<"ata", Us>>
     ELSE IF i = 7 THEN <<"wallet", Us>>
     ELSE IF mirror[i] = Volume(MirrorUser(mirror, source)) THEN Volume(Us)
     ELSE mirror[i]]

(***************************************************************************)
(* Curves and quotes                                                       *)
(***************************************************************************)

\* BondingCurveState; sane: the quote passes validate_buy_amount.
Curve == [named: BOOLEAN, mayhem: BOOLEAN, complete: BOOLEAN, sane: BOOLEAN]
NoCurve == [complete |-> FALSE]

\* Mutation of ConstantProduct: rounded up.
ConstantProductUp(from, to, amount) ==
  IF from = 0 THEN 0 ELSE (to * amount + from + amount - 1) \div (from + amount)

\* sol_to_token_quote and token_to_sol_quote.
ConstantProduct(from, to, amount) ==
  IF from = 0 THEN 0 ELSE (to * amount) \div (from + amount)

(***************************************************************************)
(* Building a buy                                                          *)
(***************************************************************************)

\* build_buy_account_keys_standard: derived addresses only.  The vault is
\* derived from a creator that is no longer the one it belongs to, and the
\* creator's authority is not known.
StandardKeys(curve) ==
  [BuyLayout(Us, IF curve.mayhem THEN "mayhem" ELSE OurFee, OurBuyback)
     EXCEPT ![10] = <<"old_vault">>, ![18] = <<"none">>]

\* The slots of a mirror that are believed, and those of them that are when no
\* curve is known: the recipient of the buyback fee has to be ours then.
Trusted        == {1, 9, 16, 17}
TrustedBlindly == {1, 9, 17}

Differs(keys, other, trusted) == \E slot \in 0..17 \ trusted : keys[slot + 1] # other[slot + 1]

\* validate_direct_mirror_buy_accounts: only accounts of a new BUY are compared.
ValidMirror(mirror, source, curve) ==
  /\ Len(mirror) >= 16
  /\ Len(mirror) = 18 =>
       IF curve # NoCurve
       THEN curve.named /\ ~Differs(Replaced(mirror, source), StandardKeys(curve), Trusted)
       ELSE ~Differs(Replaced(mirror, source), BuyLayout(Us, OurFee, OurBuyback), TrustedBlindly)

\* Mutation of Taken: the accounts of a SELL are read like those of a BUY.
TakenUnsorted(r) == <<r[10], r[9], r[16], r[16]>>

\* By its number of accounts an instruction is a new BUY, an old one, or a SELL.
Taken(r) ==
  IF Len(r) >= 18 THEN <<r[10], r[9], r[17], r[18]>>
  ELSE IF Len(r) = 17 THEN <<r[10], r[9], <<"buyback", OurBuyback>>, <<"none">>>>
  ELSE IF Len(r) = 16 THEN <<r[9], r[10], r[15], r[16]>>
  ELSE << <<"none">>, <<"none">>, <<"buyback", OurBuyback>>, <<"none">> >>

\* build_buy_instruction_from_mirror
FromMirror(mirror, source) ==
  LET r == Replaced(mirror, source)
      t == Taken(r)
  IN  << r[1], r[2], r[3], r[4], r[5], <<"ata", Us>>, <<"wallet", Us>>, <<"system">>, t[2], t[1],
         <<"events">>, <<"program">>, <<"global_volume">>, Volume(Us), <<"fee_config">>,
         <<"fee_program">>, t[3], t[4] >>

Failed == [ok |-> FALSE, accounts |-> <<>>]
Built(accounts) == [ok |-> TRUE, accounts |-> accounts]

\* buy_standard_from_cached_state: of the accounts, the last one is left out.
Standard(curve) ==
  IF curve.complete \/ ~curve.sane \/ ~curve.named THEN Failed
  ELSE Built([i \in 1..17 |-> StandardKeys(curve)[i]])

\* buy_from_cached_state: the amount is not validated.
Cached(mirror, source, curve) ==
  IF curve.complete THEN Failed ELSE Built(FromMirror(mirror, source))

\* The data of the instruction that is copied: too short, a buy of so many
\* tokens, a buy for so much SOL, or something else.
Data == {"none", "tokens", "sol", "other"}

\* buy_from_target_instruction
Target(mirror, source, data) ==
  IF data = "tokens" THEN Built(FromMirror(mirror, source)) ELSE Failed

\* The choice in execute_buy once the accounts have been prefetched.
BuyResult(mirror, source, curve, direct, data) ==
  IF curve # NoCurve
  THEN IF mirror # <<>> /\ ValidMirror(mirror, source, curve) THEN Cached(mirror, source, curve)
       ELSE Standard(curve)
  ELSE IF /\ data # "none" /\ mirror # <<>> /\ direct
          /\ ValidMirror(mirror, source, NoCurve)
       THEN Target(mirror, source, data)
       ELSE Failed

(***************************************************************************)
(* Building a sale                                                         *)
(***************************************************************************)

\* Mutation of SellTaken: a buy is taken for a sale.
SellTakenAlike(mirror) == <<mirror[9], mirror[15], mirror[16]>>

SellTaken(mirror) ==
  IF Len(mirror) >= 18 THEN <<mirror[10], mirror[17], mirror[18]>>
  ELSE IF Len(mirror) >= 16 THEN <<mirror[9], mirror[15], mirror[16]>>
  ELSE << <<"none">>, <<"curve_v2">>, <<"buyback", OurBuyback>> >>

\* build_sell_instruction_from_mirror, without and with the accumulator.
SellFromMirror(mirror, cashback) ==
  LET t == SellTaken(mirror)
      plain == << mirror[1], mirror[2], mirror[3], mirror[4], mirror[5], <<"ata", Us>>,
                  <<"wallet", Us>>, <<"system">>, t[1], <<"token_program">>, <<"events">>,
                  <<"program">>, <<"fee_config">>, <<"fee_program">>, t[2], t[3] >>
  IN  IF cashback
      THEN [i \in 1..17 |-> IF i < 15 THEN plain[i] ELSE IF i = 15 THEN Volume(Us) ELSE plain[i - 1]]
      ELSE plain

(***************************************************************************)
(* Properties                                                              *)
(***************************************************************************)

\* A BUY, and a SELL without cashback, of a wallet that is copied: whoever's trade
\* triggers our buy, and whatever is known of the curve, what is built of them is
\* a BUY in our name with each of its 18 accounts in its place, or nothing.
\*
\* Of the accounts of a BUY of another mint no buy is built that is not for ours.
\*
\* A SELL in cashback mode has as many accounts as an old BUY, and is taken for one;
\* a SELL of another mint is not told from one of ours.
PlacedBuy(mirror, fee, buyback) ==
  \A source \in Wallets, curve \in Curve \cup {NoCurve}, direct \in BOOLEAN, data \in Data :
    LET r == BuyResult(mirror, source, curve, direct, data)
    IN  r.ok => r.accounts = BuyLayout(Us, fee, buyback)

OwnMint(mirror) ==
  \A source \in Wallets, curve \in Curve \cup {NoCurve}, direct \in BOOLEAN, data \in Data :
    LET r == BuyResult(mirror, source, curve, direct, data)
    IN  r.ok => r.accounts[3] = <<"mint">>

BuysPlaced ==
  \A w \in Wallets, fee \in Fees, buyback \in Buybacks :
    /\ PlacedBuy(BuyLayout(w, fee, buyback), fee, buyback)
    /\ PlacedBuy(SellLayout(w, fee, buyback), fee, buyback)
    /\ OwnMint([BuyLayout(w, fee, buyback) EXCEPT ![3] = <<"other_mint">>])

\* The accounts a buy was made of are kept for the sale of what was bought: it is
\* a SELL in our name with each account in its place, in cashback mode too.
SalesPlaced ==
  \A w \in Wallets, fee \in Fees, buyback \in Buybacks :
    \A mirror \in {BuyLayout(w, fee, buyback), SellLayout(w, fee, buyback)} :
      /\ SellFromMirror(mirror, FALSE) = SellLayout(Us, fee, buyback)
      /\ SellFromMirror(mirror, TRUE) = CashbackLayout(Us, fee, buyback)

\* A quote never promises more than the curve has, and the tokens quoted for an
\* amount of SOL are never worth more than that amount.
QuotesSafe ==
  \A sol, token, amount \in 0..MaxReserve :
    LET tokens == ConstantProduct(sol, token, amount) IN
    /\ tokens <= token
    /\ ConstantProduct(token, sol, tokens) <= amount

=============================================================================
