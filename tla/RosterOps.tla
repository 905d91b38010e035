----------------------------- MODULE RosterOps -----------------------------
(***************************************************************************)
(* The roster operations of fl-save, one action per public operation, in   *)
(* any order the engine may call them: a session moves, signs and releases *)
(* players, renumbers shirts, sets captains and formations, and repairs    *)
(* the game plans; reset_session starts a new one on the same save.        *)
(*                                                                         *)
(* A refused operation changes nothing, so it is no step here.             *)
(***************************************************************************)
EXTENDS Roster

CONSTANTS
    Clubs,         \* the clubs of the save
    InitialSaves,  \* saves a session may start from
    Forms,         \* formations a club may be set to
    Numbers,       \* shirt numbers an update may ask for
    Supplied,      \* positions a feed may give a signing; Unknown is a label that names none
    Candidates,    \* bound: players the engine may plan to release for a signing
    MaxSteps       \* bound: operations in one behaviour

VARIABLES
    save,          \* club |-> club record
    transferred,   \* players moved or signed in this session
    signing,       \* history: who the last step signed, and the position he went by
    steps          \* operations so far

vars == <<save, transferred, signing, steps>>

SavedClub ==
    [ids : [Slots -> Players \cup {Nobody}], shirts : [Slots -> Nat],
     lineup : [Roles -> Nat], captain : Nat, form : [1 .. Starters -> Codes \cup {Unknown}]]

\* No gap in a roster, nobody twice in it, and no number worn twice (a player
\* may be without one, 0).
RosterSound(c) ==
    /\ Active(c.ids) = 1 .. Count(c)
    /\ \A s, t \in Active(c.ids) : s # t =>
          /\ c.ids[s] # c.ids[t]
          /\ c.shirts[s] = 0 \/ c.shirts[s] # c.shirts[t]

OneClubEach(clubs) ==
    \A j, k \in Clubs : j # k => Members(clubs[j]) \cap Members(clubs[k]) = {}

\* Saves whose rosters pass the integrity check (validate.rs, 486-516) and hold
\* nobody at two clubs, which the check only counts. A formation's layout has
\* one goalkeeper, first (formation.rs, 175-199).
ASSUME SavesAssumption ==
    /\ \A s \in InitialSaves :
          /\ s \in [Clubs -> SavedClub]
          /\ OneClubEach(s) /\ \A k \in Clubs : RosterSound(s[k])
    /\ Numbers \subseteq Nat /\ Supplied \subseteq Codes \cup {Unknown}
    /\ \A form \in Forms : \A r \in 1 .. Starters : (form[r] = Gk) <=> (r = 1)

\* What the feed says of a native player's position is not looked at.
Labels(p) == IF p \in Native THEN {NoLabel} ELSE Supplied \cup {NoLabel}
Plans(c, p) == {Nobody} \cup (IF IsFull(c) THEN (Members(c) \cap Candidates) \ {p} ELSE {})

Init ==
    /\ save \in InitialSaves
    /\ transferred = {}
    /\ signing = NoOver
    /\ steps = 0

Step == steps < MaxSteps /\ steps' = steps + 1

\* The planned candidate comes from the engine; none leaves the choice to the
\* save.
MovePlayer ==
    /\ Step
    /\ \E from, to \in Clubs, p \in Players : \E label \in Labels(p), planned \in Plans(save[to], p) :
          /\ CanMove(save, transferred, p, from, to, planned, TRUE)
          /\ save' = Moved(save, transferred, p, from, to, planned, 0, label)
          /\ transferred' = transferred \cup {p}
          /\ signing' = [player |-> p, pos |-> Effective(p, label)]

AddPlayer ==
    /\ Step
    /\ \E to \in Clubs, p \in Players, number \in Numbers : \E label \in Labels(p) :
          /\ CanAdd(save, transferred, p, to, Nobody, TRUE, {})
          /\ save' = Added(save, transferred, p, to, Nobody, number, label, {})
          /\ transferred' = transferred \cup {p}
          /\ signing' = [player |-> p, pos |-> Effective(p, label)]

ReleasePlayer ==
    /\ Step
    /\ \E from \in Clubs, p \in Players :
          /\ CanRelease(save, p, from)
          /\ save' = Released(save, p, from)
    /\ signing' = NoOver
    /\ UNCHANGED transferred

\* Two requests at once, so that numbers may be swapped.
UpdateShirts ==
    /\ Step
    /\ \E k \in Clubs, m, n \in Numbers : \E p, q \in Members(save[k]) :
          LET updates == <<<<p, m>>, <<q, n>>>>
          IN  /\ CanRenumber(save[k], updates)
              /\ save' = [save EXCEPT ![k] = Renumbered(@, updates)]
    /\ signing' = NoOver
    /\ UNCHANGED transferred

SetCaptain ==
    /\ Step
    /\ \E k \in Clubs : \E p \in Members(save[k]) :
          save' = [save EXCEPT ![k].captain = SlotOf(save[k], p)]
    /\ signing' = NoOver
    /\ UNCHANGED transferred

SetFormation ==
    /\ Step
    /\ \E k \in Clubs, form \in Forms : save' = [save EXCEPT ![k].form = form]
    /\ signing' = NoOver
    /\ UNCHANGED transferred

\* Every game plan is repaired; those of `aligned` get a new XI as well.
RepairGamePlans ==
    /\ Step
    /\ \E aligned \in SUBSET Clubs, preserve \in BOOLEAN :
          LET repairs == [k \in Clubs |->
                             GamePlanRepaired(save[k], transferred, k \in aligned, preserve)]
          IN  \E new \in [Clubs -> UNION Range(repairs)] :
                 /\ \A k \in Clubs : new[k] \in repairs[k]
                 /\ save' = new
    /\ signing' = NoOver
    /\ UNCHANGED transferred

ResetSession ==
    /\ transferred # {}
    /\ transferred' = {}
    /\ signing' = NoOver
    /\ UNCHANGED <<save, steps>>

Next ==
    \/ MovePlayer
    \/ AddPlayer
    \/ ReleasePlayer
    \/ UpdateShirts
    \/ SetCaptain
    \/ SetFormation
    \/ RepairGamePlans
    \/ ResetSession

Spec == Init /\ [][Next]_vars

-----------------------------------------------------------------------------
\* No operation leaves a player at two clubs or twice at one, a gap in a
\* roster, or two players of a club in one shirt, whatever it had to release to
\* make room (ops.rs move_player, add_player, remove_roster_player and
\* update_player_shirt_numbers write slots one by one).
RostersSound ==
    OneClubEach(save) /\ \A k \in Clubs : RosterSound(save[k])

\* The inductive strengthening: what was read as a club stays one.
HasRoster(c) ==
    /\ {"ids", "shirts", "lineup", "captain", "form"} = DOMAIN c
    /\ c.ids \in [Slots -> Players \cup {Nobody}]
    /\ c.shirts \in [Slots -> Nat]
RosterFacts ==
    /\ DOMAIN save = Clubs
    /\ \A k \in Clubs : HasRoster(save[k])
    /\ RostersSound

\* The head of a lineup is a permutation of the occupied slots and the whole of
\* it names every slot once.
Standard(c) ==
    /\ {c.lineup[r] : r \in 1 .. Count(c)} = Active(c.ids)
    /\ {c.lineup[r] : r \in Roles} = Slots

\* Where someone is a goalkeeper, no known outfield player keeps the goal; over
\* is the position a signing goes by.
KeeperInGoal(c, over) ==
    (\E s \in Active(c.ids) : PosAt(c, s, over) = Gk)
    => (PosAt(c, c.lineup[1], over) \in {Gk, Unknown} /\ c.form[1] = Gk)

\* A standard lineup stays one, whoever left, was promoted, joined or was
\* swapped: what lineup.rs inserts into its tail and removes from it keeps head
\* and tail apart, although slots move under them. And a goalkeeper is in goal if
\* one was, or if the step changed the roster or the lineup. A signing is judged
\* by the position he was signed with (ops.rs, 437-461 and 620-637): a feed that
\* calls the catalog's goalkeeper a forward keeps him out of the goal until the
\* roster or the lineup changes again, by the catalog.
LineupSound(c, d, over) ==
    Standard(c) =>
        /\ Standard(d)
        /\ KeeperInGoal(c, NoOver) \/ d.ids # c.ids \/ d.lineup # c.lineup
              => KeeperInGoal(d, over)
LineupsStaySound == [][\A k \in Clubs : LineupSound(save[k], save'[k], signing')]_vars

\* The captain byte names a slot; it follows its player when the roster is
\* compacted and is emptied when he leaves, so no step makes another player
\* captain but the two that choose one (a byte that names an empty slot, in a
\* save that was damaged before, may be taken over by a signing).
CaptainOf(c) == IF c.captain = NoSlot THEN Nobody ELSE c.ids[c.captain]
CaptainFollows(c, d) ==
    LET old == CaptainOf(c)
        new == CaptainOf(d)
    IN  (c.captain \in Active(c.ids) \cup {NoSlot} /\ new # old)
          => \/ new = Nobody /\ old \notin Members(d)
             \/ Members(d) = Members(c)

\* Taking a player out or in disturbs no other starter: an outfield starter
\* who stays keeps his role, except that one at most makes way: the last of a
\* squad too small to have a bench, who fills the vacated role.
StartersStay(c, d) ==
    LET left == Members(c) \ Members(d)
        role(e, p) == CHOOSE r \in Roles : e.lineup[r] = SlotOf(e, p)
        moved == {p \in Members(c) \cap Members(d) :
                    /\ PosOf[p] \notin {Gk, Unknown}
                    /\ role(c, p) <= Starters /\ role(c, p) # 1
                    /\ role(d, p) # role(c, p)}
    IN  Standard(c) /\ Members(c) # Members(d) =>
          \/ moved = {}
          \/ left # {} /\ Cardinality(moved) = 1 /\ Count(c) <= Starters + 1

\* Players who stay keep their part: slots are renumbered under the lineup and
\* the roles (ops.rs, 561-615; lineup.rs, 197-316), and what names a slot goes
\* on naming the same player.
PartsFollowPlayers ==
    [][\A k \in Clubs : CaptainFollows(save[k], save'[k]) /\ StartersStay(save[k], save'[k])]_vars

\* Repairing the game plans settles, whatever the lineup was: in one go when the
\* lineup is standard, the formation names one goalkeeper and someone who may be
\* one has his role, else in at most two, because the XI is aligned before the
\* goalkeeper's role and the formation are mended. The engine repeats rounds
\* until one changes no game plan, so a repair that went on undoing its own work
\* would never end.
Orderly(c) ==
    /\ Standard(c) /\ CanKeepGoal(c.ids[c.lineup[1]])
    /\ \A r \in 1 .. Starters : (c.form[r] = Gk) <=> (r = 1)
RepairSettles ==
    \A k \in Clubs :
        LET Again(d) == GamePlanRepaired(d, transferred, TRUE, TRUE)
        IN  \A d \in Again(save[k]) :
              /\ {d.lineup[r] : r \in 1 .. Count(d)} = Active(d.ids)
              /\ \A afterwards \in {Again(d)} :
                    \/ afterwards = {d}
                    \/ ~Orderly(save[k]) /\ \A e \in afterwards : Again(e) = {e}
=============================================================================
