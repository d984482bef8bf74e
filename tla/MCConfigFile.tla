---------------------------- MODULE MCConfigFile ----------------------------
(***************************************************************************)
(* ConfigFile with documents that differ in what an enrolment has to do: a *)
(* fresh one, an enrolled one with an anchor in use, and one that no login *)
(* can load, with a key twice and a value of several lines.                *)
(***************************************************************************)
EXTENDS ConfigFile, TLC

V(n, shape) == [id |-> n, shape |-> shape]
Note == [key |-> None, by |-> "operator"]
Users == [Line("users", V(1, "plain")) EXCEPT !.form = "block"]
Issuer == Line("issuer", V(1, "plain"))
HostID == Line("host_id", V(1, "plain"))
Client == Line("client_id", V(1, "plain"))

MCDocuments ==
    {<<Note, Issuer, Client, Users>>,
     <<[Issuer EXCEPT !.anchor = TRUE], [Client EXCEPT !.form = "alias"], Users, HostID>>,
     <<[Issuer EXCEPT !.form = "block"], Client, Note, HostID, HostID, Users>>}

MCUpdates ==
    {[host_id |-> V(2, "plain"), api_base |-> V(2, "plain")],
     [host_id |-> V(2, "padded"), api_base |-> V(2, "plain"), issuer |-> V(2, "plain")],
     [host_id |-> V(2, "spaced"), api_base |-> V(2, "plain")],
     [host_id |-> V(2, "multiline"), api_base |-> V(2, "plain")],
     [host_id |-> V(2, "plain"), api_base |-> V(2, "plain"), issuer |-> V(2, "userinfo"),
      client_id |-> V(2, "plain")]}

Interchangeable == Permutations(Editors)
=============================================================================
