------------------------- MODULE MCVendorSecurities -------------------------
(* Small instances of VendorSecurities: every log of a few records of one   *)
(* security, with a record of another security possible anywhere in it.     *)
EXTENDS VendorSecurities

CONSTANTS k1, k2

MCKeys == {k1, k2}

\* A removal is stamped and says nothing else.
MCMessages ==
    {m \in Messages :
        /\ m.kind = "removal" => m.stamp # NoStamp /\ m.issuer = "blank"
        /\ m.key = k2 => m.kind = "update" /\ m.stamp = 1 /\ m.issuer = "given"}

MCLogs == [Offsets -> MCMessages]

\* Logs of updates only.
MCUpdates == {l \in MCLogs : \A i \in Offsets : l[i].kind = "update"}

\* Logs of updates that are all dated.
MCDatedUpdates == {l \in MCUpdates : \A i \in Offsets : l[i].stamp # NoStamp}
=============================================================================
