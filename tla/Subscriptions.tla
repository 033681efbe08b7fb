--------------------------- MODULE Subscriptions ----------------------------
(***************************************************************************)
(* What a WebSocket client is subscribed to (internal/api/websocket.go,    *)
(* type subscriptions): a switch per message type and a set of symbols,    *)
(* which counts once symbols have been named (the map is not nil).         *)
(* Symbols are taken after normalizeSymbol; Blank is a name that matches   *)
(* no configured symbol: an empty one or an unknown one.                   *)
(***************************************************************************)
EXTENDS FiniteSets

CONSTANTS Symbols, Blank, NoSymbol

ASSUME SymbolAssumption == {Blank, NoSymbol} \cap Symbols = {}

Types == {"snapshot_1s", "latest_price", "heartbeat", "source_price", "source_status"}
Subs == [types : SUBSET Types, named : BOOLEAN, symbols : SUBSET Symbols]

NewSubscriptions ==
    [types |-> {"snapshot_1s", "latest_price", "heartbeat"}, named |-> FALSE, symbols |-> {}]

\* The symbols parameter of the URL, if there is one.
SetSymbols(subs, request) ==
    IF request.named
    THEN [types |-> subs.types, named |-> TRUE, symbols |-> request.symbols \cap Symbols]
    ELSE subs

Wants(subs, type, symbol) ==
    /\ type \in subs.types
    /\ symbol = NoSymbol \/ ~subs.named \/ symbol \in subs.symbols

EffectiveSymbols(subs) == IF subs.named THEN subs.symbols ELSE Symbols

\* The first subscription that names symbols narrows the client to them.
Subscribe(subs, types, symbols) ==
    [types |-> subs.types \cup (types \cap Types),
     named |-> subs.named \/ symbols # {},
     symbols |-> subs.symbols \cup (symbols \cap Symbols)]

Unsubscribe(subs, types, symbols) ==
    [types |-> subs.types \ types,
     named |-> subs.named \/ symbols # {},
     symbols |-> IF symbols = {} THEN subs.symbols ELSE EffectiveSymbols(subs) \ symbols]
=============================================================================
