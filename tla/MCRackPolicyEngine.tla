------------------------ MODULE MCRackPolicyEngine -------------------------
(* Two zones and one rack that may be moved between them; an administrator    *)
(* of low clearance, and an operator whose session may have run out.          *)
EXTENDS RackPolicyEngine

MCZones == {"power_ring", "staging_dock"}
MCPrincipals ==
    {[role |-> "admin", mfa |-> TRUE, clearance |-> 3, session |-> TRUE]}
      \cup {[role |-> "operator", mfa |-> FALSE, clearance |-> 2, session |-> live] :
              live \in BOOLEAN}
\* A Monday morning and the night before it.
MCInstants == {<<0, 9>>, <<6, 23>>}
\* A night watch of one; the zone closed, with nobody in it, and with one still
\* inside: a lower limit put in place with the count carried over.
NightPolicy(max, inside) ==
    [zone |-> "staging_dock", clearance |-> 1,
     window |-> [days |-> {6}, start |-> 22, end |-> 6],
     mfa |-> TRUE, max |-> max, occupants |-> inside]
MCZonePolicies == {NightPolicy(1, 0), NightPolicy(0, 0), NightPolicy(0, 1)}
=============================================================================
