------------------------------ MODULE MCMigrations ------------------------------
(* The kinds of scripts the two lists have, in their order: tables with an *)
(* index, an index alone, what is there already, a column, an index dropped *)
(* and built again under its name, a column added later, an index dropped   *)
(* for good.                                                               *)
EXTENDS Migrations, TLC

CONSTANTS p1, p2, table, key, column, late, forked, started

Do(op, obj) == [op |-> op, obj |-> obj]
Offline(does) == [online |-> FALSE, does |-> does]
Online(s) == [online |-> TRUE, does |-> <<s>>]

Processes == {p1, p2}
Objects == {table, key, column, late, forked, started}

First == << Offline(<<Do("add", table), Do("add", key), Do("add", forked)>>),
            Offline(<<Do("add", started)>>),
            Offline(<<Do("ensure", key)>>),
            Offline(<<Do("add", column)>>) >>

Lists ==
    "postgres" :> First \o << Online(Do("drop", forked)),
                              Online(Do("ensure", forked)),
                              Offline(<<Do("ensure", late)>>),
                              Online(Do("drop", started)) >> @@
    "sqlite" :> First \o << Offline(<<Do("drop", forked)>>),
                            Offline(<<Do("ensure", forked)>>),
                            Offline(<<Do("add", late)>>),
                            Offline(<<Do("drop", started)>>) >>
=============================================================================
