---- MODULE MCClientConnection ----
(***************************************************************************)
(* ClientConnection for TLC: two requests on a connection, of every kind   *)
(* in each place.                                                          *)
(***************************************************************************)
EXTENDS ClientConnection

Request(asks, minor, agent, length) ==
    [uri |-> asks, minor |-> minor, agent |-> agent, length |-> length]

Calculation == Request("/fact/12", "1", FALSE, NoLength)
Home == Request("/", "1", FALSE, NoLength)

AllScripts ==
    {<<Calculation, Request("/fact/12", "1", TRUE, NoLength)>>,
     <<Calculation, Home>>,
     <<Request("/fact/x", "1", TRUE, NoLength), Calculation>>,
     <<Request("/other", "1", FALSE, NoLength), Request("/", "0", FALSE, NoLength)>>,
     <<Calculation, Request("/fact/12", "0", FALSE, NoLength)>>,
     <<Request("/fact/12", "1", FALSE, "2"), Calculation>>,
     <<Request("/fact/12", "1", TRUE, "0"), Home>>,
     <<Calculation, Request("/", "1", FALSE, "bad")>>}

AllManners == [waits : BOOLEAN, patient : BOOLEAN]

====
