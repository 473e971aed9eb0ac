---------------------------- MODULE MCCrmCuration ----------------------------
(* A small instance of CrmCuration: a client or two, one account, a source  *)
(* that makes a few changes.                                                *)
EXTENDS CrmCuration

CONSTANTS c1, c2, a1

MCClients == {c1, c2}

MCAccounts == {a1}

\* LSNs of one width: as strings they compare as numbers.
MCRank == [n \in 1..MaxLsn |-> n]

(***************************************************************************)
(* The histories of MaxLsn changes in which the account is under every     *)
(* client there is, at one time or another, c1 coming first; where there   *)
(* are two clients, the account is open until it is deleted.               *)
(***************************************************************************)
Kinds ==
    {k \in [key : Keys, op : {"write", "delete"}, client : MCClients, status : Statuses] :
        /\ k.key \in MCClients => k.client = k.key
        /\ k.key \in MCClients \/ k.op = "delete" => k.status = "closed"}

MCHistories ==
    {h \in {{[lsn |-> n, key |-> f[n].key, op |-> f[n].op, client |-> f[n].client,
               status |-> f[n].status] : n \in 1..MaxLsn} : f \in [1..MaxLsn -> Kinds]} :
        /\ Legal(h)
        /\ \A e \in h : e.op = "delete" /\ ~OfClient(e) =>
               e.client = Last({f \in h : f.key = e.key /\ f.lsn < e.lsn}).client
        /\ \A e \in h : e.lsn = 1 => e.key = c1
        /\ \A e \in h : OfClient(e) =>
               \E f \in h : ~OfClient(f) /\ f.op = "write" /\ f.client = e.key
        /\ (\E e \in h : e.key = c2) =>
              \A e \in h : ~OfClient(e) /\ e.op = "write" => e.status = "open"}

\* LSNs 1 and 2 are the last ones of their width: as strings, the others,
\* which have a digit more, come before them.
MCDigitRank == [n \in 1..MaxLsn |-> IF n <= 2 THEN n + MaxLsn - 2 ELSE n - 2]

MCPaces == {"sink first", "any"}

MCSinkFirst == {"sink first"}

MCAnyPace == {"any"}
=============================================================================
