------------------------------- MODULE Protocol -------------------------------
(***************************************************************************)
(* The messages of the broker's WebSocket API: the requests the binaries   *)
(* build and how parse_response reads what comes back. A JSON object is a  *)
(* function of the fields it has; a field is a number, a text, or a        *)
(* numeral: a text that is the decimal form of a number. Text that is not  *)
(* JSON parses like the empty object, to Unknown.                          *)
(***************************************************************************)
EXTENDS Integers, Sequences

Num(n) == [form |-> "number", val |-> n]
Txt(s) == [form |-> "text", val |-> s]
Numeral(n) == [form |-> "numeral", val |-> n]

Has(object, field) == field \in DOMAIN object

\* Indexing a field that is missing yields null, which has no fields.
Part(object, field) == IF Has(object, field) THEN object[field] ELSE <<>>

Text(object, field, default) ==
  IF Has(object, field) /\ object[field].form # "number"
  THEN object[field].val ELSE default

Whole(object, field, default) ==
  IF Has(object, field) /\ object[field].form = "number"
  THEN object[field].val ELSE default

\* A mutant: prices that come as text are not read.
AmountOfNumber(object, field) == Whole(object, field, 0)

\* parse_f64_field: a number, or a text that is one, else zero.
Amount(object, field) ==
  IF Has(object, field) /\ object[field].form # "text" THEN object[field].val
  ELSE 0

\* A contract id comes as a number or as a text; the number is formatted.
Identifier(object) ==
  IF Has(object, "contract_id") THEN object["contract_id"].val ELSE ""

Flag(object, field) == Whole(object, field, 0) = 1

Unknown == [kind |-> "Unknown"]

ParseError(v) ==
  [kind |-> "Error", code |-> Text(v["error"], "code", ""),
   req_id |-> Whole(v, "req_id", "none")]

ParseContract(c) ==
  [kind |-> "ProposalOpenContract", contract_id |-> Identifier(c),
   status |-> Text(c, "status", "unknown"), profit |-> Amount(c, "profit"),
   buy_price |-> Amount(c, "buy_price"), is_sold |-> Flag(c, "is_sold"),
   is_expired |-> Flag(c, "is_expired"),
   is_valid_to_sell |-> Flag(c, "is_valid_to_sell")]

\* What a message without an error is, by its type.
ParseByType(v, type) ==
  LET body == Part(v, type) IN
  CASE type = "authorize" ->
         [kind |-> "Authorize", balance |-> Amount(body, "balance"),
          login_id |-> Text(body, "loginid", "")]
    [] type = "tick" ->
         [kind |-> "Tick", symbol |-> Text(body, "symbol", ""),
          price |-> Amount(body, "quote"), epoch |-> Whole(body, "epoch", 0)]
    [] type = "proposal" ->
         [kind |-> "Proposal", req_id |-> Whole(v, "req_id", 0),
          proposal_id |-> Text(body, "id", ""),
          ask_price |-> Amount(body, "ask_price")]
    [] type = "buy" ->
         [kind |-> "Buy", contract_id |-> Identifier(body),
          buy_price |-> Amount(body, "buy_price")]
    [] type = "proposal_open_contract" -> ParseContract(body)
    [] type = "balance" ->
         [kind |-> "Balance", balance |-> Amount(body, "balance")]
    [] type = "time" -> [kind |-> "Time", server_time |-> Whole(v, "time", 0)]
    [] type = "sell" ->
         [kind |-> "Sell", contract_id |-> Identifier(body),
          sold_for |-> Amount(body, "sold_for"),
          profit |-> Amount(body, "profit")]
    [] type \in {"forget", "forget_all"} ->
         [kind |-> "Forget", count |-> Whole(v, "forget", 0)]
    [] OTHER -> Unknown

\* An error is an error whatever else the message has.
Parse(v) ==
  IF Has(v, "error") THEN ParseError(v)
  ELSE ParseByType(v, IF Has(v, "msg_type") THEN v["msg_type"] ELSE "")
-------------------------------------------------------------------------------
(* Requests, by what the broker distinguishes. *)

Authorize == [request |-> "authorize"]
SubscribeTicks(symbol) == [request |-> "ticks", symbol |-> symbol]
SubscribeBalance == [request |-> "balance"]
TimeRequest == [request |-> "time"]
===============================================================================
