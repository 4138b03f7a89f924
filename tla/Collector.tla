----------------------------- MODULE Collector -----------------------------
(***************************************************************************)
(* CallParameterCollector (model/data_point.py): a call of a custom data    *)
(* point (cover, light, ...) names the values it wants sent one by one; the *)
(* collector groups them into requests, one for a channel and an order.     *)
(***************************************************************************)
EXTENDS Integers, FiniteSetsExt, Sequences

CONSTANT None   \* no value, an argument that is not given

\* add_data_point: a value for a field of a channel ("own" is the channel of
\* the custom data point), and its collector_order
Entry(channel, field, value, order) ==
    [channel |-> channel, field |-> field, value |-> value, order |-> order]
Put(field, value) == Entry("own", field, value, 50)

\* A conditional entry.
When(condition, entries) == IF condition THEN entries ELSE <<>>

Key(entry) == <<entry.order, entry.channel>>

\* The entries that make one request.
KeysOf(entries) == {Key(entries[i]) : i \in DOMAIN entries}
Group(entries, key) == {i \in DOMAIN entries : Key(entries[i]) = key}

\* Lower orders come first, then the channels as they were first named.
Before(entries, k, l) ==
    k[1] < l[1] \/ (k[1] = l[1] /\ Min(Group(entries, k)) < Min(Group(entries, l)))
NthKey(entries, n) ==
    CHOOSE k \in KeysOf(entries) : Cardinality({l \in KeysOf(entries) : Before(entries, l, k)}) = n - 1

\* Of several values for a field the last is sent.
Request(entries, group) ==
    [field \in {entries[i].field : i \in group} |->
        entries[Max({i \in group : entries[i].field = field})].value]

\* The requests of send_data.
Requests(entries) ==
    [n \in 1 .. Cardinality(KeysOf(entries)) |-> Request(entries, Group(entries, NthKey(entries, n)))]
=============================================================================
