-------------------------------- MODULE Stack --------------------------------
(***************************************************************************)
(* stack.c and what moves clients in it: globalconf.stack, bottom to top,  *)
(* the transient_for relation, and the refresh that puts every transient   *)
(* right above its parent.                                                 *)
(*                                                                         *)
(* wlroots keeps a relation of its own, parent, that it never lets become  *)
(* circular; transient_for is read from it when a client maps.  Which      *)
(* client has the keyboard is not followed here: focusclient() meets       *)
(* either answer.                                                          *)
(*                                                                         *)
(* An action of Lua that walks a circular transient_for never returns: it  *)
(* has no step.  Once a listed client is transient for a client that is    *)
(* not listed, C code may follow the pointer into freed userdata: no       *)
(* further step is taken (Followed).                                       *)
(***************************************************************************)
EXTENDS Integers, FiniteSets, SequencesExt

CONSTANTS
    Toplevel,           \* clients of xdg toplevels
    XWindow,            \* clients of XWayland windows
    OverrideRedirect,   \* those of them that are override-redirect
    NoClient,           \* NULL
    MaxClients,         \* bound on the clients of one behaviour
    Overlays            \* whether an overlay may hold the keyboard focus

ASSUME KindsDiffer == Toplevel \cap XWindow = {}
ASSUME ClientsAssumption == IsFiniteSet(Toplevel \cup XWindow)
ASSUME OverrideAssumption == OverrideRedirect \subseteq XWindow
ASSUME NoClientAssumption == NoClient \notin Toplevel \cup XWindow
ASSUME MaxClientsAssumption == MaxClients \in Nat
ASSUME OverlaysAssumption == Overlays \in BOOLEAN

Client == Toplevel \cup XWindow

VARIABLES
    phase,          \* what wlroots knows of the surface of each client
    parent,         \* wlroots: the parent of each surface
    listed,         \* the clients in globalconf.clients
    transient_for,  \* transient_for of each client
    stack,          \* globalconf.stack
    dirty           \* need_stack_refresh

vars == <<phase, parent, listed, transient_for, stack, dirty>>

-----------------------------------------------------------------------------
(* The ancestors of a client by a relation up: itself, its parent, and so   *)
(* on, with NoClient for ever past the last.                               *)

Chain(up, c, len) ==
    LET Step(d) == IF d = NoClient THEN NoClient ELSE up[d]
        chain[n \in 0..len] == IF n = 0 THEN c ELSE Step(chain[n - 1])
    IN  chain

Longest == Cardinality(Client)

Descends(up, c, d) == LET chain == Chain(up, c, Longest) IN \E n \in 1..Longest : chain[n] = d

Ends(up, c) == Chain(up, c, Longest)[Longest] = NoClient

(* For a client whose chain ends: its last ancestor, and so on down to it. *)
Lineage(up, c) ==
    LET chain == Chain(up, c, Longest)
        depth == CHOOSE n \in 0..Longest - 1 : chain[n] # NoClient /\ chain[n + 1] = NoClient
    IN  [i \in 1..depth + 1 |-> chain[depth + 1 - i]]

(* What a sequence has of a set, in its order.                             *)
Filtered(s, T) ==
    LET kept[n \in 0..Len(s)] == IF n = 0 THEN <<>>
                                 ELSE IF s[n] \in T THEN Append(kept[n - 1], s[n])
                                 ELSE kept[n - 1]
    IN  kept[Len(s)]

Without(s, T) == Filtered(s, ToSet(s) \ T)

-----------------------------------------------------------------------------
(* stack_refresh().  A client rides its parent when its chain, within the  *)
(* stack and within the length of the stack, ends at another client.       *)

Within(s) == [d \in Client |-> IF Contains(s, transient_for[d]) THEN transient_for[d]
                                                               ELSE NoClient]

\* Mutant: a client rides any parent that is in the stack.
RidesAnyParent(s, c) == Contains(s, transient_for[c])

Rides(s, c) ==
    LET chain == Chain(Within(s), c, Len(s))
    IN  \E n \in 1..Len(s) - 1 : chain[n] # NoClient /\ chain[n + 1] = NoClient

Riding(s) == {d \in ToSet(s) : Rides(s, d)}

\* The clients that ride each one, and those that ride none.
Riders(s) ==
    LET riding == Riding(s)
    IN  [c \in Client |-> Filtered(s, {d \in riding : transient_for[d] = c})]
Roots(s) == Without(s, Riding(s))

\* Each client with what tree has of the clients that ride it.
Grown(riders, tree) ==
    [c \in Client |-> <<c>> \o FlattenSeq([i \in DOMAIN riders[c] |-> tree[riders[c][i]]])]

Place(s) ==
    LET riders == Riders(s)
        roots == Roots(s)
        tree[n \in 0..Len(s)] ==       \* of each client, n generations of it
            IF n = 0 THEN [c \in Client |-> <<>>] ELSE Grown(riders, tree[n - 1])
    IN  FlattenSeq([i \in DOMAIN roots |-> tree[Len(s)][roots[i]]])

PushTo(s, c) == <<c>> \o Without(s, {c})
AppendTo(s, c) == Without(s, {c}) \o <<c>>

Init ==
    /\ phase = [c \in Client |-> "none"]
    /\ parent = [c \in Client |-> NoClient]
    /\ listed = {}
    /\ transient_for = [c \in Client |-> NoClient]
    /\ stack = <<>>
    /\ dirty = FALSE

Followed == \A c \in listed : transient_for[c] \in listed \cup {NoClient}

SetPhase(c, p) == phase' = [phase EXCEPT ![c] = p]

-----------------------------------------------------------------------------
(* wlroots: the parent a window may be given, and what becomes of the      *)
(* parent relation when a surface goes.                                    *)

MayParent(c, p) ==
    \/ p = NoClient
    \/ /\ p # c /\ ~Descends(parent, p, c)
       /\ \/ c \in XWindow /\ p \in XWindow /\ phase[p] \notin {"none", "gone"}
          \/ c \in Toplevel /\ p \in Toplevel /\ phase[p] = "mapped"

SetParent(c) ==
    /\ Followed
    /\ phase[c] \notin {"none", "gone"}
    /\ \E p \in Client \cup {NoClient} :
          p # parent[c] /\ MayParent(c, p) /\ parent' = [parent EXCEPT ![c] = p]
    /\ UNCHANGED <<phase, listed, transient_for, stack, dirty>>

Orphans(c) ==
    [d \in Client |-> IF parent[d] = c
                      THEN IF c \in Toplevel THEN parent[c] ELSE NoClient
                      ELSE parent[d]]

-----------------------------------------------------------------------------
(* Clients come, map, unmap and go.                                        *)

Create(c) ==
    /\ Followed
    /\ phase[c] = "none"
    /\ Cardinality({d \in Client : phase[d] # "none"}) < MaxClients
    /\ SetPhase(c, IF c \in XWindow THEN "unpaired" ELSE "ready")
    /\ listed' = listed \cup {c}
    /\ UNCHANGED <<parent, transient_for, stack, dirty>>

Associate(c) ==
    /\ Followed
    /\ phase[c] = "unpaired"
    /\ SetPhase(c, "ready")
    /\ UNCHANGED <<parent, listed, transient_for, stack, dirty>>

(* client_find_transient_for(): NULL when the chain from p comes back to   *)
(* c or is longer than the stack.                                          *)
FindTransientFor(c, p, known, len) ==
    LET chain == Chain(transient_for, p, len)
    IN  IF p \in known /\ chain[len] = NoClient /\ \A n \in 0..len : chain[n] # c
        THEN p ELSE NoClient

(* A window with a parent that has a surface is transient for it, whatever *)
(* client_find_transient_for() said.                                       *)
MappedTransientFor(c) ==
    LET p == parent[c]
    IN  IF p = NoClient \/ c \in OverrideRedirect THEN transient_for[c]
        ELSE IF phase[p] \in {"ready", "mapped"} THEN p
        ELSE FindTransientFor(c, p, listed \cup {c}, Len(PushTo(stack, c)))

(* The stack that focusclient() leaves, with c not yet the focused one.    *)
(* held: an overlay, or a client with exclusive focus, keeps the keyboard. *)
Lifted(s, c, lift) == IF lift THEN AppendTo(s, c) ELSE s

Focused(s, c, lift) ==
    IF c \in OverrideRedirect THEN Lifted(s, c, lift) ELSE PushTo(Lifted(s, c, lift), c)

MapOverride(c) ==
    /\ Followed
    /\ c \in OverrideRedirect /\ phase[c] = "ready"
    /\ SetPhase(c, "mapped")
    /\ \/ stack' = PushTo(stack, c) /\ dirty' = TRUE
       \/ \E held \in {FALSE, Overlays} :
             /\ stack' = IF held THEN Focused(PushTo(stack, c), c, TRUE)
                                 ELSE Place(Focused(PushTo(stack, c), c, TRUE))
             /\ dirty' = held
    /\ UNCHANGED <<parent, listed, transient_for>>

\* Mutant: the next refresh is not asked for.
MapQuietly(c) ==
    /\ Followed
    /\ c \notin OverrideRedirect /\ phase[c] = "ready"
    /\ SetPhase(c, "mapped")
    /\ listed' = listed \cup {c}
    /\ stack' = PushTo(stack, c)
    /\ transient_for' = [transient_for EXCEPT ![c] = MappedTransientFor(c)]
    /\ UNCHANGED <<parent, dirty>>

Map(c) ==
    /\ Followed
    /\ c \notin OverrideRedirect /\ phase[c] = "ready"
    /\ SetPhase(c, "mapped")
    /\ listed' = listed \cup {c}
    /\ stack' = PushTo(stack, c)
    /\ transient_for' = [transient_for EXCEPT ![c] = MappedTransientFor(c)]
    /\ dirty' = TRUE
    /\ UNCHANGED parent

(* client_unmanage(): the clients that are transient for c are looked for  *)
(* in globalconf.clients.                                                  *)
Unmanage(c) ==
    /\ listed' = listed \ {c}
    /\ stack' = Without(stack, {c})
    /\ transient_for' = [d \in Client |-> IF d \in listed /\ transient_for[d] = c
                                         THEN NoClient ELSE transient_for[d]]
    /\ dirty' = TRUE

(* A window is withdrawn before it was shown.                              *)
Dissociate(c) ==
    /\ Followed
    /\ c \in XWindow /\ phase[c] = "ready"
    /\ SetPhase(c, "unpaired")
    /\ UNCHANGED <<parent, listed, transient_for, stack, dirty>>

(* A toplevel that unmaps goes on with a new client: this one is gone.     *)
Unmap(c) ==
    /\ Followed
    /\ phase[c] = "mapped"
    /\ SetPhase(c, IF c \in XWindow THEN "unpaired" ELSE "gone")
    /\ IF c \in Toplevel
       THEN parent' = [Orphans(c) EXCEPT ![c] = NoClient]
       ELSE UNCHANGED parent
    /\ IF c \in OverrideRedirect
       THEN UNCHANGED <<listed, transient_for, stack, dirty>>
       ELSE Unmanage(c)

Destroy(c) ==
    /\ Followed
    /\ phase[c] \notin {"none", "gone"}
    /\ SetPhase(c, "gone")
    /\ parent' = [Orphans(c) EXCEPT ![c] = NoClient]
    /\ IF c \in listed
       THEN Unmanage(c)
       ELSE UNCHANGED <<listed, transient_for, stack, dirty>>

-----------------------------------------------------------------------------
(* c:raise(), c:lower(), and focusclient(c, lift).                         *)

Raised(c) == LET l == Lineage(transient_for, c) IN Without(stack, ToSet(l)) \o l
Lowered(c) == LET l == Lineage(transient_for, c) IN l \o Without(stack, ToSet(l))

IsRaised(c) == transient_for[c] = NoClient /\ stack # <<>> /\ Last(stack) = c
IsLowered(c) == stack # <<>> /\ stack[1] = c

Raise(c) ==
    /\ Followed
    /\ c \in listed /\ Ends(transient_for, c)
    /\ ~IsRaised(c)
    /\ stack' = Raised(c)
    /\ dirty' = TRUE
    /\ UNCHANGED <<phase, parent, listed, transient_for>>

Lower(c) ==
    /\ Followed
    /\ c \in listed /\ Ends(transient_for, c)
    /\ ~IsLowered(c)
    /\ stack' = Lowered(c)
    /\ dirty' = TRUE
    /\ UNCHANGED <<phase, parent, listed, transient_for>>

Focus(c, lift) ==
    /\ Followed
    /\ phase[c] = "mapped"
    /\ \/ /\ stack' = Lifted(stack, c, lift)        \* c has the keyboard already
          /\ dirty' = (dirty \/ lift)
       \/ /\ stack' = Place(Focused(stack, c, lift))
          /\ dirty' = FALSE
       \/ /\ Overlays
          /\ stack' = Focused(stack, c, lift)
          /\ dirty' = (dirty \/ lift)
    /\ UNCHANGED <<phase, parent, listed, transient_for>>

Refresh ==
    /\ dirty
    /\ stack' = Place(stack)
    /\ dirty' = FALSE
    /\ UNCHANGED <<phase, parent, listed, transient_for>>

Next ==
    \/ \E c \in Client : SetParent(c)
    \/ \E c \in Client : Create(c)
    \/ \E c \in XWindow : Associate(c)
    \/ \E c \in XWindow : Dissociate(c)
    \/ \E c \in OverrideRedirect : MapOverride(c)
    \/ \E c \in Client : Map(c)
    \/ \E c \in Client : Unmap(c)
    \/ \E c \in Client : Destroy(c)
    \/ \E c \in Client : Raise(c)
    \/ \E c \in Client : Lower(c)
    \/ \E c \in Client, lift \in BOOLEAN : Focus(c, lift)
    \/ Refresh

Spec == Init /\ [][Next]_vars

-----------------------------------------------------------------------------
(* Properties.                                                             *)

TypeOK ==
    /\ phase \in [Client -> {"none", "unpaired", "ready", "mapped", "gone"}]
    /\ parent \in [Client -> Client \cup {NoClient}]
    /\ listed \subseteq Client
    /\ transient_for \in [Client -> Client \cup {NoClient}]
    /\ stack \in Seq(Client)
    /\ dirty \in BOOLEAN

Position(s, c) == CHOOSE i \in DOMAIN s : s[i] = c

(* Every client is in the stack once at most, and only while it is in      *)
(* globalconf.clients; every mapped client is in it.                       *)
StackHoldsTheListed ==
    /\ IsInjective(stack)
    /\ Followed => ToSet(stack) \subseteq listed
    /\ \A c \in Client : phase[c] = "mapped" => Contains(stack, c)

(* "Every transient sits right above its parent": between a transient and  *)
(* the client it rides there are only other transients of that client,     *)
(* direct or not.                                                          *)
TransientsSitOnTheirParents ==
    ~dirty => \A c \in ToSet(stack) : Rides(stack, c) =>
        LET p == transient_for[c]
        IN  /\ Position(stack, p) < Position(stack, c)
            /\ \A i \in Position(stack, p) + 1..Position(stack, c) :
                  Descends(transient_for, stack[i], p)

Places(s, l) == [i \in DOMAIN l |-> Position(s, l[i])]

\* p differs from q by a smaller number, or by its end, first.
Earlier(p, q) ==
    \E k \in 1..Len(q) :
        /\ k <= Len(p) + 1
        /\ \A i \in 1..k - 1 : p[i] = q[i]
        /\ k <= Len(p) => p[k] < q[k]

(* "... siblings in their old order": the refreshed stack is the old one   *)
(* sorted by where the client, its parent, its parent's parent, ... were,  *)
(* the oldest ancestor first.                                              *)
SortedByAncestry ==
    LET Up == [c \in Client |-> IF Contains(stack, c) /\ Rides(stack, c)
                                THEN transient_for[c] ELSE NoClient]
        s == Place(stack)
    IN  /\ Len(s) = Len(stack) /\ ToSet(s) = ToSet(stack)
        /\ \A i, j \in DOMAIN s : i < j =>
              Earlier(Places(stack, Lineage(Up, s[i])), Places(stack, Lineage(Up, s[j])))

(* After the next refresh a client whose raise is done, or was skipped as  *)
(* nothing to do, has nothing above it but its own transients, and one     *)
(* whose lower is done has nothing below it but its parents.               *)
RaiseRaises ==
    Followed => \A c \in listed : Ends(transient_for, c) =>
        LET s == Place(IF IsRaised(c) THEN stack ELSE Raised(c))
        IN  \A i \in DOMAIN s : i > Position(s, c) => Descends(transient_for, s[i], c)

LowerLowers ==
    Followed => \A c \in listed : Ends(transient_for, c) =>
        LET s == Place(Lowered(c))
        IN  \A i \in DOMAIN s : i < Position(s, c) => Descends(transient_for, c, s[i])

(* "Verify that there are no loops in the transient_for relation after we  *)
(* are done".                                                              *)
NoTransientLoops == \A c \in Client : Ends(transient_for, c)

(* "Reset transient_for attributes of windows that might be referring to   *)
(* us": no client is transient for one that is no longer managed.          *)
TransientForListed ==
    \A c \in Client : transient_for[c] \in listed \cup {NoClient}

(* Raise and lower take a client above, or below, all but its own family.  *)
RaiseAndLower == RaiseRaises /\ LowerLowers

(* The stack holds each listed client once, in an order a refresh makes     *)
(* agree with ancestry, and raise and lower do what they say.              *)
StackSound == StackHoldsTheListed /\ SortedByAncestry /\ RaiseAndLower

(* Windows of one kind are interchangeable; TLC uses it.                   *)
Symmetry == Permutations(Toplevel) \cup Permutations(XWindow \ OverrideRedirect)
=============================================================================
