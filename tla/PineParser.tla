----------------------------- MODULE PineParser -----------------------------
(***************************************************************************)
(* A message becomes a signal: PineTunnelParser takes the parameters one   *)
(* by one (webhook/parser.py), validates the signal and writes it as the   *)
(* dictionary the EA reads, which validate_signal (webhook/validator.py)   *)
(* looks at; the latter is so far called by the tests only.                *)
(***************************************************************************)
EXTENDS Integers, Sequences

CONSTANTS Params,    \* the parameters that occur, [key, value]
          MaxParams, \* bound on the parameters of a message
          MaxFixed,  \* _MAX_LOTS
          NaN,       \* the value of "nan", which float() takes and int() does not
          Word,      \* a text that neither of them takes
          None       \* no value

Groups == {"vol", "sl", "tp", "entry"}

\* _ALL_EXPLICIT, by the group whose type an explicit parameter sets.
Explicit == [vol |-> {"lots", "usd", "risk_bal_pct"}, sl |-> {"sl_points", "sl_price"},
             tp |-> {"tp_points", "tp_price"}, entry |-> {"entry_price", "entry_points"}]

Legacy == [vol |-> "risk", sl |-> "sl", tp |-> "tp", entry |-> "pending"]

Others == {"be_trigger", "be_offset", "trail_trigger", "trail_distance", "trail_step",
           "atr_timeframe", "atr_period", "atr_multiplier"}

ParamKeys == (UNION {Explicit[g] : g \in Groups}) \cup {Legacy[g] : g \in Groups} \cup Others

ASSUME PineParserAssumption ==
    /\ MaxParams \in Nat /\ MaxFixed \in Nat
    /\ {NaN, Word, None} \cap Int = {} /\ NaN # Word /\ None \notin {NaN, Word}
    /\ Params \subseteq [key : ParamKeys, value : Int \cup {NaN, Word}]

Market == {"buy", "sell", "close_long_sell", "close_short_buy"}
Pending == {"buy_stop", "sell_limit"}
CancelReplace == {"cancel_long_buy_stop"}
ByVolume == {"close_long_vol"}
ParserCommands == Market \cup Pending \cup CancelReplace \cup ByVolume \cup {"close_all"}

VARIABLES
    command, \* the command
    message, \* its parameters so far
    fields,  \* the params dict: a value, or None, for each key
    types,   \* vol_type, sl_type, tp_type, entry_type: the explicit key seen, or ""
    outcome  \* parsing, conflict, refused, or accepted

ppVars == <<command, message, fields, types, outcome>>

PpTypeOK ==
    /\ command \in ParserCommands /\ message \in Seq(Params) /\ Len(message) <= MaxParams
    /\ fields \in [ParamKeys -> {None} \cup {p.value : p \in Params}]
    /\ types \in [Groups -> ParamKeys \cup {""}]
    /\ outcome \in {"parsing", "conflict", "refused", "accepted"}

PpInit ==
    /\ command \in ParserCommands /\ message = <<>>
    /\ fields = [k \in ParamKeys |-> None] /\ types = [g \in Groups |-> ""] /\ outcome = "parsing"

-----------------------------------------------------------------------------
GroupOf(key) == {g \in Groups : key \in Explicit[g]}

\* Mutant: a second explicit parameter of a group is not noticed.
SeenNever(g) == FALSE

\* "Only one ... parameter is allowed per signal": one that float() refused does
\* not count, one that comes later counts whether float() takes it or not.
Seen(g) == types[g] # ""

\* float(value), int(value), or the text as it is.
Read(p) ==
    /\ p.value = Word => p.key = "atr_timeframe"
    /\ p.value = NaN => p.key # "atr_period"

\* One round of _parse_parameters.
Take(p) ==
    /\ outcome = "parsing" /\ Len(message) < MaxParams /\ message' = Append(message, p)
    /\ IF \E g \in GroupOf(p.key) : Seen(g)
       THEN outcome' = "conflict" /\ UNCHANGED <<fields, types>>
       ELSE /\ outcome' = outcome
            /\ IF Read(p)
               THEN /\ fields' = [fields EXCEPT ![p.key] = p.value]
                    /\ types' = [g \in Groups |-> IF g \in GroupOf(p.key) THEN p.key ELSE types[g]]
               ELSE UNCHANGED <<fields, types>>
    /\ UNCHANGED command

Given(key) == fields[key] # None
HasVolume == Given("risk") \/ \E k \in Explicit["vol"] : Given(k)
HasStop == Given("sl") \/ \E k \in Explicit["sl"] : Given(k)
HasEntry == Given("pending") \/ \E k \in Explicit["entry"] : Given(k)
AllOrNone(keys) == (\E k \in keys : Given(k)) => \A k \in keys : Given(k)

\* Python's < and <= on floats: neither holds of a nan.
Less(a, b) == a # NaN /\ b # NaN /\ a < b
AtMost(a, b) == a # NaN /\ b # NaN /\ a <= b

NeverNegative == (UNION {Explicit[g] : g \in Groups}) \cup {"sl", "tp"}

\* _validate_signal: every rejection as a conjunct, so that a nan passes where
\* the code asks whether a value is bad and not where it asks whether it is good.
ValidSignal ==
    /\ \A k \in NeverNegative : Given(k) => ~Less(fields[k], 0)
    /\ Given("lots") => ~AtMost(fields["lots"], 0) /\ ~Less(MaxFixed, fields["lots"])
    /\ Given("risk") => ~AtMost(fields["risk"], 0)
    /\ Given("risk_bal_pct") => Less(0, fields["risk_bal_pct"]) /\ AtMost(fields["risk_bal_pct"], 100)
    /\ Given("usd") \/ Given("risk_bal_pct") => HasStop
    /\ command \in Market \cup Pending \cup CancelReplace => HasVolume
    /\ command \in Pending \cup CancelReplace => HasEntry
    /\ command \in ByVolume => Given("risk")
    /\ AllOrNone({"be_trigger", "be_offset"})
    /\ Given("be_trigger") => ~AtMost(fields["be_trigger"], fields["be_offset"])
    /\ AllOrNone({"trail_trigger", "trail_distance", "trail_step"})
    /\ Given("atr_multiplier") \/ Given("atr_timeframe") \/ Given("atr_period") =>
          Given("atr_timeframe") /\ Given("atr_period")

\* The end of parse.
Finish ==
    /\ outcome = "parsing" /\ outcome' = IF ValidSignal THEN "accepted" ELSE "refused"
    /\ UNCHANGED <<command, message, fields, types>>

PpNext == Finish \/ \E p \in Params : Take(p)

PpSpec == PpInit /\ [][PpNext]_ppVars

-----------------------------------------------------------------------------
\* to_dict: the explicit parameter where its type is set, else the legacy one.
Emitted(g) == IF types[g] # "" THEN fields[types[g]] ELSE fields[Legacy[g]]

Buys == {"buy", "buy_stop", "close_short_buy"}
Sells == {"sell", "sell_limit", "close_long_sell"}

\* a is below b for a buy and above it for a sell, or one of them is a nan.
Below(a, b) == IF command \in Sells THEN ~AtMost(a, b) ELSE ~AtMost(b, a)

\* validate_signal on the dictionary: a volume within 0..100 (lots are written as
\* the volume, too), stop, price and target in order, no further from the price
\* than half of it, a pending order with a price.
Valid ==
    LET volume == Emitted("vol")  sl == Emitted("sl")  tp == Emitted("tp")  price == Emitted("entry")
        far(x) == x # NaN /\ Less(0, price) /\ 2 * (IF x > price THEN x - price ELSE price - x) > price
    IN  /\ command \in Buys \cup Sells =>
              /\ volume # None => ~Less(volume, 0) /\ ~Less(100, volume)
              /\ sl # None /\ tp # None /\ price = None => Below(sl, tp)
              /\ sl # None /\ price # None => Below(sl, price) /\ ~far(sl)
              /\ tp # None /\ price # None => Below(price, tp) /\ ~far(tp)
        /\ command \in Pending => price # None /\ ~AtMost(price, 0)

-----------------------------------------------------------------------------
\* Where in the message a value that float() takes is given for one of these keys.
Numbers(keys) == {i \in DOMAIN message : message[i].key \in keys /\ message[i].value # Word}

\* What the message says of a group: its explicit parameter wherever it stands,
\* else the last of the legacy ones.
Says(g, value) ==
    LET typed == Numbers(Explicit[g])  plain == Numbers({Legacy[g]})
    IN  \/ \E i \in typed : value = message[i].value
        \/ typed = {} /\ \E i \in plain : value = message[i].value /\ \A k \in plain : k <= i
        \/ typed = {} /\ plain = {} /\ value = None

\* "Explicit parameters take priority over legacy parameters regardless of order
\* in the message", and a message with two of a group is not accepted.
ParsedAsWritten ==
    \A g \in Groups : Says(g, Emitted(g)) /\ \A i, k \in Numbers(Explicit[g]) : i = k

\* A signal that the validator lets through has its stop and its target on the
\* two sides of its price, whichever of the three it names, as long as all it
\* names are numbers. Of a nan this cannot be said: float() takes one, every
\* rejection that compares it is passed, and with a nan for a price the stop and
\* the target are compared with nothing else.
NotCrossed ==
    /\ Valid
    /\ Emitted("sl") \in Int /\ Emitted("tp") \in Int /\ Emitted("entry") \in Int \cup {None}
    => /\ command \in Buys => Emitted("sl") < Emitted("tp")
       /\ command \in Sells => Emitted("tp") < Emitted("sl")

\* An accepted signal says what its message says, and trades on no crossed
\* prices that the validator let through.
SignalSound == outcome = "accepted" => ParsedAsWritten /\ NotCrossed
=============================================================================
