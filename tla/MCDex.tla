------------------------------- MODULE MCDex --------------------------------
(* Values for the constants of Dex. *)
EXTENDS Dex

(* "xff" and "xfe" are single bytes that are no UTF-8, "ufffd" is what       *)
(* encoding/json writes for either.                                          *)
MCDenoms == {"ETH", "USD", "xff", "xfe", "ufffd"}
MCutf8 == [d \in MCDenoms |-> IF d \in {"xff", "xfe"} THEN "ufffd" ELSE d]

Pair == <<"ETH", "USD">>
Price(pair, price) == [pair |-> pair, price |-> price]

(* Type, address, amount and price take 29 and 37 bytes, the text the rest. *)
Bytes(d) == IF d \in {"xff", "xfe"} THEN 1 ELSE 3
Deposit(a, n, d) ==
    [type |-> "deposit", addr |-> a, amount |-> n, denom |-> d, size |-> 29 + Bytes(d)]
Withdraw(a, n, d) == [Deposit(a, n, d) EXCEPT !.type = "withdraw"]
OrderOf(a, n, p, pair) ==
    [type |-> "limit_order", addr |-> a, amount |-> n, price |-> p, pair |-> pair,
     size |-> 38 + Bytes(pair[1]) + Bytes(pair[2])]
Order(a, n, p) == OrderOf(a, n, p, Pair)
Oracle(prices) ==
    [type |-> "oracle_update", prices |-> prices,
     size |-> IF prices = Malformed THEN 2 ELSE 1 + OracleEntrySize * Len(prices)]
Junk == [type |-> "junk", size |-> 1]
NoDenom(tx) == [tx EXCEPT !.size = 29]
NoPair(tx) == [tx EXCEPT !.size = 37]

Oracle2 == Oracle(<<Price(<<>>, 5), Price(Pair, 0), Price(Pair, 4)>>)

MCProposals ==
    BoundedSeq({Deposit("a1", 3, "ETH"), Deposit("a1", 2, "USD"), Deposit("a2", 7, "ETH"),
                Withdraw("a1", 0, "ETH"), Withdraw("a1", 3, "ETH"),
                Order("a1", 2, 1), Oracle2}, 2)

(* States ahead of the first blocks: with an order and a price; with two keys *)
(* that their JSON makes one; with wrapped funds and a key that it renames.  *)
MCSyncedChains ==
    {<< <<Deposit("a1", 3, "ETH"), Order("a1", 2, 1)>>, <<Oracle2, Withdraw("a1", 1, "ETH")>> >>,
     << <<Deposit("a1", 2, "xff"), Deposit("a1", 1, "xfe")>>, <<Deposit("a1", 1, "ETH")>> >>,
     << <<Deposit("a2", 7, "ETH"), Deposit("a2", 2, "xff")>>,
        <<Deposit("a2", 1, "ETH"), OrderOf("a2", 1, 1, <<"xff", "ETH">>)>> >>}

MCReceivedVoteSets == {<<>>, << <<>> >>}

MCMempools ==
    {<<Deposit("a1", 1, "ETH"), Oracle(Malformed), Withdraw("a1", 1, "ETH")>>,
     <<Oracle2, Deposit("a1", 0, "ETH"), Order("a1", 2, 0)>>,
     <<Deposit("a2", 1, "ETH"), Junk, Order("a2", 1, 1), Junk>>,
     <<NoDenom(Deposit("a1", 1, "ETH")), Withdraw("a1", 1, "ETH"), NoPair(Order("a1", 1, 1))>>,
     <<Deposit("a1", 1, "xff"), Withdraw("a1", 1, "ufffd"), NoDenom(Withdraw("a1", 1, "ETH"))>>}

MCVoteSets ==
    BoundedSeq({<<>>, Malformed, <<Price(Pair, 3), Price(Pair, 1)>>, <<Price(Pair, 2)>>,
                <<Price(<<>>, 4), Price(<<"BTC", "USD">>, 0), Price(<<"BTC", "USD">>, 7)>>}, 2)
    \union {<< <<Price(Pair, 3), Price(Pair, 1)>>, <<Price(Pair, 2)>>, <<Price(Pair, 4)>> >>}

=============================================================================
