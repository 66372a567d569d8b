---------------------------- MODULE FencingToken ----------------------------
(***************************************************************************)
(* What the coordination of a session promises, with the leases, the       *)
(* retries and the failures left out. A generation is a token. It is drawn *)
(* once, by an increment, and at most one owner can claim it. A pod admits *)
(* tokens in increasing order. An owner serves a pod under a token it has  *)
(* claimed, and only once the pod has admitted that token or a later one.  *)
(***************************************************************************)
EXTENDS Naturals

CONSTANTS Owners, Resources, NoResource

VARIABLES token,     \* the last token drawn
          claims,    \* the tokens each owner has drawn and does not serve yet
          serving,   \* the token and the resource each owner serves
          admitted   \* the last token each resource admitted

tokenVars == <<token, claims, serving, admitted>>

Nothing == [gen |-> 0, pod |-> NoResource]

\* The first token is served from the start by the owner that created it.
TokenInit ==
  /\ token = 1
  /\ claims = [o \in Owners |-> {}]
  /\ \E o \in Owners, x \in Resources :
       serving = [q \in Owners |-> IF q = o THEN [gen |-> 1, pod |-> x] ELSE Nothing]
  /\ admitted = [x \in Resources |-> 0]

\* A token is drawn, for an owner or to close the one before it.
Draw(o) ==
  /\ token' = token + 1
  /\ claims' = [claims EXCEPT ![o] = @ \cup {token + 1}]
  /\ UNCHANGED <<serving, admitted>>
Burn == token' = token + 1 /\ UNCHANGED <<claims, serving, admitted>>

Admit(x, g) ==
  /\ admitted[x] < g
  /\ admitted' = [admitted EXCEPT ![x] = g]
  /\ UNCHANGED <<token, claims, serving>>

Serve(o, x, g) ==
  /\ g \in claims[o] /\ admitted[x] >= g
  /\ claims' = [claims EXCEPT ![o] = @ \ {g}]
  /\ serving' = [serving EXCEPT ![o] = [gen |-> g, pod |-> x]]
  /\ UNCHANGED <<token, admitted>>

\* An owner gives up a claim, stops serving, or dies.
Withdraw(o, g) ==
  /\ claims' = [claims EXCEPT ![o] = @ \ {g}]
  /\ UNCHANGED <<token, serving, admitted>>
Stop(o) == serving' = [serving EXCEPT ![o] = Nothing] /\ UNCHANGED <<token, claims, admitted>>
Die(o) ==
  /\ claims' = [claims EXCEPT ![o] = {}]
  /\ serving' = [serving EXCEPT ![o] = Nothing]
  /\ UNCHANGED <<token, admitted>>

TokenNext ==
  \/ Burn
  \/ \E o \in Owners : Draw(o) \/ Stop(o) \/ Die(o)
  \/ \E o \in Owners, g \in 1 .. token : Withdraw(o, g)
  \/ \E x \in Resources, g \in 1 .. token : Admit(x, g)
  \/ \E o \in Owners, x \in Resources, g \in 1 .. token : Serve(o, x, g)

TokenSpec == TokenInit /\ [][TokenNext]_tokenVars
=============================================================================
