--------------------------- MODULE ParamSetsProofs ---------------------------
(***************************************************************************)
(* For every set of ids and contents, and whatever fits whatever: the      *)
(* decoder of ParamSets loses no newest parameter set and decodes with the *)
(* newest ones (NewestKept, UsesNewest).                                   *)
(*                                                                         *)
(* SPSs over VPSs and PPSs over SPSs obey the same rules.  Level states    *)
(* them once, for a list of stored sets, the pending ones and the list     *)
(* they depend on, and the lemmas of the first part say how each change of *)
(* these lists keeps them.                                                 *)
(*                                                                         *)
(* The second part is about the module SnapshotQueue: what a snapshot of a *)
(* reference shows.                                                        *)
(***************************************************************************)
EXTENDS ParamSets, Sequences, TLAPS

(***************************************************************************)
(* The stored and the pending sets have arrived.  The newest set of every  *)
(* id outside X is kept.  A stored set was parsed against the one that is  *)
(* stored now under the id it refers to.                                   *)
(***************************************************************************)
Level(dep, stored, pend, new, X) ==
    /\ DOMAIN stored \subseteq DOMAIN new
    /\ DOMAIN pend \subseteq DOMAIN new
    /\ \A i \in DOMAIN new \ X : Kept(new[i], pend, stored)
    /\ \A i \in DOMAIN stored :
           /\ stored[i].nal.dep \in DOMAIN dep
           /\ stored[i].on = dep[stored[i].nal.dep]

(* The newest sets of one kind, by id. *)
Arrived(new) ==
    /\ new = [i \in DOMAIN new |-> new[i]]
    /\ \A i \in DOMAIN new : new[i] \in ParameterSet /\ new[i].id = i

(* A pending set does not parse against what it failed against. *)
TriedSps(pend) ==
    \A i \in DOMAIN pend :
        pend[i].failed # None => ~Parses(pend[i].nal, pend[i].failed)

TriedPps(pend) ==
    \A i \in DOMAIN pend :
        pend[i].failed # None => ~Parses(pend[i].nal, pend[i].failed.nal)

-----------------------------------------------------------------------------
(* A set that arrives is the newest of its id, and not kept yet. *)
LEMMA LevelArrive ==
    ASSUME NEW dep, NEW stored, NEW pend, NEW new, NEW n,
           Arrived(new),
           Level(dep, stored, pend, new, {})
    PROVE  Level(dep, stored, pend, Put(new, n.id, n), {n.id})
BY DEF Level, Put, Kept, Arrived

(* A newest set that is kept may be taken for one that is not. *)
LEMMA LevelWeaken ==
    ASSUME NEW dep, NEW stored, NEW pend, NEW new, NEW X,
           Level(dep, stored, pend, new, {})
    PROVE  Level(dep, stored, pend, new, X)
BY DEF Level

(* It is kept pending, whatever was pending under its id. *)
LEMMA LevelKeep ==
    ASSUME NEW dep, NEW stored, NEW pend, NEW new, NEW n, NEW failed,
           Arrived(new), n.id \in DOMAIN new, new[n.id] = n,
           Level(dep, stored, pend, new, {n.id})
    PROVE  Level(dep, stored, keep_pending(pend, n, failed), new, {})
BY DEF Level, Put, Kept, Arrived, keep_pending

(* It repeats the stored set, which supersedes what was pending. *)
LEMMA LevelRepeat ==
    ASSUME NEW dep, NEW stored, NEW pend, NEW new, NEW n,
           Arrived(new), n.id \in DOMAIN new, new[n.id] = n,
           Level(dep, stored, pend, new, {n.id}),
           n.id \in DOMAIN stored, stored[n.id].nal = n
    PROVE  Level(dep, stored, Without(pend, {n.id}), new, {})
BY DEF Level, Without, Kept, Arrived

(* It is stored. *)
LEMMA LevelStore ==
    ASSUME NEW dep, NEW stored, NEW pend, NEW new, NEW n,
           Arrived(new), n.id \in DOMAIN new, new[n.id] = n,
           Level(dep, stored, pend, new, {n.id}),
           n.dep \in DOMAIN dep
    PROVE  Level(dep, Put(stored, n.id, [nal |-> n, on |-> dep[n.dep]]),
                 Without(pend, {n.id}), new, {})
BY DEF Level, Without, Put, Kept, Arrived

(***************************************************************************)
(* The sets they depend on change under the ids of gone: what was parsed   *)
(* against one of those waits.                                             *)
(***************************************************************************)
LEMMA LevelGone ==
    ASSUME NEW dep, NEW after, NEW stored, NEW pend, NEW new, NEW gone, NEW users,
           Arrived(new),
           Level(dep, stored, pend, new, {}),
           users \subseteq DOMAIN stored,
           \A i \in DOMAIN stored : i \in users <=> stored[i].nal.dep \in gone,
           \A j \in DOMAIN dep \ gone : j \in DOMAIN after /\ after[j] = dep[j]
    PROVE  Level(after, Without(stored, users),
                 Over(pend, Waiting(stored, users)), new, {})
<1> DEFINE s == Without(stored, users)
           w == Waiting(stored, users)
           p == Over(pend, w)
<1>1. DOMAIN s = DOMAIN stored \ users /\ \A i \in DOMAIN s : s[i] = stored[i]
  BY DEF Without
<1>2. DOMAIN w = users /\ \A i \in users : w[i].nal = stored[i].nal
  BY DEF Waiting
<1>3. /\ DOMAIN p = DOMAIN pend \cup users
      /\ \A i \in DOMAIN pend : p[i] = pend[i]
      /\ \A i \in users \ DOMAIN pend : p[i] = w[i]
  BY <1>2 DEF Over
<1> HIDE DEF s, w, p
<1>4. \A i \in DOMAIN new : Kept(new[i], p, s)
  BY <1>1, <1>2, <1>3 DEF Level, Kept, Arrived
<1>5. Level(after, s, p, new, {})
  BY <1>1, <1>3, <1>4 DEF Level
<1> QED  BY <1>5 DEF s, p, w

(* What has been tried stays tried, and what waits has not been. *)
LEMMA Tried ==
    ASSUME NEW pend, NEW stored, NEW S, NEW n, NEW X
    PROVE  /\ TriedSps(pend) => TriedSps(Over(pend, Waiting(stored, S)))
           /\ TriedPps(pend) => TriedPps(Over(pend, Waiting(stored, S)))
           /\ TriedSps(pend) => TriedSps(Without(pend, X))
           /\ TriedPps(pend) => TriedPps(Without(pend, X))
           /\ TriedSps(pend) => TriedSps(keep_pending(pend, n, None))
           /\ TriedPps(pend) => TriedPps(keep_pending(pend, n, None))
<1>1. TriedSps(pend) => TriedSps(Over(pend, Waiting(stored, S)))
  BY DEF TriedSps, Over, Waiting
<1>2. TriedPps(pend) => TriedPps(Over(pend, Waiting(stored, S)))
  BY DEF TriedPps, Over, Waiting
<1>3. TriedSps(pend) => TriedSps(Without(pend, X))
  BY DEF TriedSps, Without
<1>4. TriedPps(pend) => TriedPps(Without(pend, X))
  BY DEF TriedPps, Without
<1>5. TriedSps(pend) => TriedSps(keep_pending(pend, n, None))
  BY DEF TriedSps, keep_pending, Put
<1>6. TriedPps(pend) => TriedPps(keep_pending(pend, n, None))
  BY DEF TriedPps, keep_pending, Put
<1> QED  BY <1>1, <1>2, <1>3, <1>4, <1>5, <1>6

-----------------------------------------------------------------------------
(***************************************************************************)
(* The decoder d when new holds the newest sets of every kind.  The newest *)
(* SPSs of the ids of X and the newest PPSs of those of Y need not be kept *)
(* yet.                                                                    *)
(***************************************************************************)
Shape(d) ==
    d = [vps |-> d.vps, sps |-> d.sps, pps |-> d.pps,
         pending_sps |-> d.pending_sps, pending_pps |-> d.pending_pps,
         refused |-> d.refused]

Sound(d, new, X, Y) ==
    /\ Shape(d)
    /\ d.vps = new["vps"]
    /\ Level(d.vps, d.sps, d.pending_sps, new["sps"], X)
    /\ Level(d.sps, d.pps, d.pending_pps, new["pps"], Y)
    /\ TriedSps(d.pending_sps)
    /\ TriedPps(d.pending_pps)
    /\ \A i \in DOMAIN d.sps : d.sps[i] \in Stored

AllArrived(new) ==
    /\ DOMAIN new = Kinds
    /\ \A t \in Kinds : Arrived(new[t])

(* The stored PPSs that were parsed against an SPS of S. *)
Users(d, S) ==
    {i \in DOMAIN d.pps : d.pps[i].nal.dep \in DOMAIN d.sps \cap S}

(* The fields remove_sps leaves. *)
LEMMA RemoveSps ==
    ASSUME NEW d, NEW S, Shape(d)
    PROVE  /\ Shape(remove_sps(d, S))
           /\ remove_sps(d, S).vps = d.vps
           /\ remove_sps(d, S).sps = Without(d.sps, DOMAIN d.sps \cap S)
           /\ remove_sps(d, S).pps = Without(d.pps, Users(d, S))
           /\ remove_sps(d, S).pending_sps = d.pending_sps
           /\ remove_sps(d, S).pending_pps =
                  Over(d.pending_pps, Waiting(d.pps, Users(d, S)))
<1> DEFINE r == remove_sps(d, S)
           p == Over(d.pending_pps, Waiting(d.pps, Users(d, S)))
           q == Without(d.pps, Users(d, S))
           t == Without(d.sps, DOMAIN d.sps \cap S)
<1>1. r = [d EXCEPT !.pending_pps = p, !.pps = q, !.sps = t]
  BY Zenon DEF remove_sps, Users
<1> HIDE DEF r, p, q, t
<1>2. /\ Shape(r) /\ r.vps = d.vps /\ r.pending_sps = d.pending_sps
      /\ r.sps = t /\ r.pps = q /\ r.pending_pps = p
  BY ZenonT(60), <1>1 DEF Shape
<1> QED  BY <1>2 DEF r, p, q, t

(* Replacing an entry is removing it and putting another. *)
LEMMA PutWithout ==
    ASSUME NEW f, NEW i, NEW S, NEW v, DOMAIN f \cap {i} \subseteq S, S \subseteq {i}
    PROVE  Put(Without(f, S), i, v) = Put(f, i, v)
BY DEF Put, Without

(* A VPS that arrives. *)
LEMMA SoundVps ==
    ASSUME NEW d, NEW new, NEW n \in ParameterSet,
           AllArrived(new), Sound(d, new, {}, {})
    PROVE  Sound(decode_nal_vps(d, n),
                 [new EXCEPT !["vps"] = Put(@, n.id, n)], {}, {})
<1> DEFINE now == [new EXCEPT !["vps"] = Put(@, n.id, n)]
<1>1. /\ now["vps"] = Put(new["vps"], n.id, n)
      /\ now["sps"] = new["sps"]
      /\ now["pps"] = new["pps"]
  BY DEF AllArrived, Kinds
<1>2. Arrived(new["vps"]) /\ Arrived(new["sps"]) /\ Arrived(new["pps"])
  BY DEF AllArrived, Kinds
<1> HIDE DEF now
<1>3. CASE n.id \in DOMAIN d.vps /\ d.vps[n.id] = n
  <2>1. Put(d.vps, n.id, n) = d.vps
    BY <1>2, <1>3 DEF Put, Arrived, Sound
  <2>2. decode_nal_vps(d, n) = d
    BY <1>3 DEF decode_nal_vps
  <2>3. Sound(d, now, {}, {})
    BY <1>1, <2>1 DEF Sound
  <2> QED  BY <2>2, <2>3 DEF now
<1>4. CASE ~(n.id \in DOMAIN d.vps /\ d.vps[n.id] = n)
  <2> DEFINE users == {i \in DOMAIN d.sps : d.sps[i].nal.dep = n.id}
             kept == [d EXCEPT !.pending_sps = Over(@, Waiting(d.sps, users))]
             gone == DOMAIN d.sps \cap users
             ppss == Users(d, users)
             r == decode_nal_vps(d, n)
  <2>1. /\ Shape(kept)
        /\ kept.vps = d.vps /\ kept.sps = d.sps /\ kept.pps = d.pps
        /\ kept.pending_sps = Over(d.pending_sps, Waiting(d.sps, users))
        /\ kept.pending_pps = d.pending_pps
    BY DEF Shape, Sound
  <2>2. r = [remove_vps(d, n.id) EXCEPT !.vps = Put(@, n.id, n)]
    BY <1>4 DEF decode_nal_vps
  <2>3. remove_vps(d, n.id) = [remove_sps(kept, users) EXCEPT !.vps = Without(@, {n.id})]
    BY DEF remove_vps
  <2>13. Users(kept, users) = ppss
    BY <2>1 DEF Users
  <2> HIDE DEF kept, r, users, gone, ppss
  <2>4. /\ Shape(remove_sps(kept, users))
        /\ remove_sps(kept, users).vps = d.vps
        /\ remove_sps(kept, users).sps = Without(d.sps, gone)
        /\ remove_sps(kept, users).pps = Without(d.pps, ppss)
        /\ remove_sps(kept, users).pending_sps = Over(d.pending_sps, Waiting(d.sps, users))
        /\ remove_sps(kept, users).pending_pps = Over(d.pending_pps, Waiting(d.pps, ppss))
    <3>1. /\ Shape(remove_sps(kept, users))
          /\ remove_sps(kept, users).vps = kept.vps
          /\ remove_sps(kept, users).sps = Without(kept.sps, DOMAIN kept.sps \cap users)
          /\ remove_sps(kept, users).pps = Without(kept.pps, Users(kept, users))
          /\ remove_sps(kept, users).pending_sps = kept.pending_sps
          /\ remove_sps(kept, users).pending_pps =
                 Over(kept.pending_pps, Waiting(kept.pps, Users(kept, users)))
      BY ZenonT(60), <2>1, RemoveSps
    <3> QED  BY <2>1, <2>13, <3>1 DEF gone
  <2>5. gone = users
    BY DEF users, gone
  <2>6. /\ Shape(r)
        /\ r.vps = Put(Without(d.vps, {n.id}), n.id, n)
        /\ r.sps = Without(d.sps, users)
        /\ r.pps = Without(d.pps, ppss)
        /\ r.pending_sps = Over(d.pending_sps, Waiting(d.sps, users))
        /\ r.pending_pps = Over(d.pending_pps, Waiting(d.pps, ppss))
    BY ZenonT(60), <2>2, <2>3, <2>4, <2>5 DEF Shape
  <2>7. r.vps = now["vps"]
    <3>1. Put(Without(d.vps, {n.id}), n.id, n) = Put(d.vps, n.id, n)
      BY PutWithout
    <3> QED  BY <1>1, <2>6, <3>1 DEF Sound
  <2>8. Level(r.vps, r.sps, r.pending_sps, now["sps"], {})
    <3>1. \A j \in DOMAIN d.vps \ {n.id} : j \in DOMAIN r.vps /\ r.vps[j] = d.vps[j]
      BY <2>6 DEF Put, Without
    <3>2. /\ users \subseteq DOMAIN d.sps
          /\ \A i \in DOMAIN d.sps : i \in users <=> d.sps[i].nal.dep \in {n.id}
      BY DEF users
    <3>3. Level(d.vps, d.sps, d.pending_sps, new["sps"], {})
      BY DEF Sound
    <3>4. Level(r.vps, Without(d.sps, users), Over(d.pending_sps, Waiting(d.sps, users)), new["sps"], {})
      BY ZenonT(60), <1>2, <3>1, <3>2, <3>3, LevelGone
    <3> QED  BY <1>1, <2>6, <3>4
  <2>9. Level(r.sps, r.pps, r.pending_pps, now["pps"], {})
    <3>1. \A j \in DOMAIN d.sps \ gone : j \in DOMAIN r.sps /\ r.sps[j] = d.sps[j]
      BY <2>5, <2>6 DEF Without
    <3>2. Level(d.sps, d.pps, d.pending_pps, new["pps"], {})
      BY DEF Sound
    <3>4. /\ ppss \subseteq DOMAIN d.pps
          /\ \A i \in DOMAIN d.pps : i \in ppss <=> d.pps[i].nal.dep \in gone
      BY DEF ppss, gone, Users
    <3>3. Level(r.sps, Without(d.pps, ppss), Over(d.pending_pps, Waiting(d.pps, ppss)), new["pps"], {})
      BY ZenonT(60), <1>2, <3>1, <3>2, <3>4, LevelGone
    <3> QED  BY <1>1, <2>6, <3>3
  <2>10. TriedSps(r.pending_sps) /\ TriedPps(r.pending_pps)
    BY <2>6, Tried DEF Sound
  <2>11. \A i \in DOMAIN r.sps : r.sps[i] \in Stored
    BY <2>6 DEF Without, Sound
  <2>12. Sound(r, now, {}, {})
    BY <2>6, <2>7, <2>8, <2>9, <2>10, <2>11 DEF Sound
  <2> QED  BY <2>12 DEF r, now
<1> QED  BY <1>3, <1>4

(***************************************************************************)
(* An SPS that is the newest of its id: one that arrives, or a pending one *)
(* parsed again.  It is left pending only without its VPS or if it fails.  *)
(***************************************************************************)
LEMMA SoundSps ==
    ASSUME NEW d, NEW new, NEW n \in ParameterSet,
           AllArrived(new), n.id \in DOMAIN new["sps"], new["sps"][n.id] = n,
           Sound(d, new, {n.id}, {})
    PROVE  /\ Sound(decode_nal_sps(d, n), new, {}, {})
           /\ n.id \in DOMAIN decode_nal_sps(d, n).pending_sps =>
                  n.dep \notin DOMAIN d.vps \/ ~Parses(n, d.vps[n.dep])
<1> DEFINE r == decode_nal_sps(d, n)
<1>1. Arrived(new["vps"]) /\ Arrived(new["sps"]) /\ Arrived(new["pps"])
  BY DEF AllArrived, Kinds
<1>2. Level(d.vps, d.sps, d.pending_sps, new["sps"], {n.id})
  BY DEF Sound
<1>3. CASE n.dep \notin DOMAIN d.vps
  <2>1. r = [d EXCEPT !.pending_sps = keep_pending(@, n, None)]
    BY <1>3 DEF decode_nal_sps
  <2> HIDE DEF r
  <2>2. /\ Shape(r)
        /\ r.vps = d.vps /\ r.sps = d.sps /\ r.pps = d.pps
        /\ r.pending_sps = keep_pending(d.pending_sps, n, None)
        /\ r.pending_pps = d.pending_pps
    BY <2>1 DEF Shape, Sound
  <2>3. Level(d.vps, d.sps, keep_pending(d.pending_sps, n, None), new["sps"], {})
    BY ZenonT(60), <1>1, <1>2, LevelKeep
  <2>4. Sound(r, new, {}, {})
    BY <2>2, <2>3, Tried DEF Sound
  <2> QED  BY <1>3, <2>4 DEF r
<1>4. CASE n.dep \in DOMAIN d.vps /\ ~Parses(n, d.vps[n.dep])
  <2>1. r = [d EXCEPT !.pending_sps = keep_pending(@, n, d.vps[n.dep])]
    BY <1>4 DEF decode_nal_sps
  <2> HIDE DEF r
  <2>2. /\ Shape(r)
        /\ r.vps = d.vps /\ r.sps = d.sps /\ r.pps = d.pps
        /\ r.pending_sps = keep_pending(d.pending_sps, n, d.vps[n.dep])
        /\ r.pending_pps = d.pending_pps
    BY <2>1 DEF Shape, Sound
  <2>3. Level(d.vps, d.sps, keep_pending(d.pending_sps, n, d.vps[n.dep]), new["sps"], {})
    BY ZenonT(60), <1>1, <1>2, LevelKeep
  <2>4. TriedSps(keep_pending(d.pending_sps, n, d.vps[n.dep]))
    BY <1>4 DEF TriedSps, keep_pending, Put, Sound
  <2>5. Sound(r, new, {}, {})
    BY <2>2, <2>3, <2>4 DEF Sound
  <2> QED  BY <1>4, <2>5 DEF r
<1>5. CASE n.dep \in DOMAIN d.vps /\ Parses(n, d.vps[n.dep])
  <2> DEFINE e == [d EXCEPT !.pending_sps = Without(@, {n.id})]
  <2>1. /\ Shape(e)
        /\ e.vps = d.vps /\ e.sps = d.sps /\ e.pps = d.pps
        /\ e.pending_sps = Without(d.pending_sps, {n.id})
        /\ e.pending_pps = d.pending_pps
    BY DEF Shape, Sound
  <2>2. n.id \notin DOMAIN Without(d.pending_sps, {n.id})
    BY DEF Without
  <2>3. CASE n.id \in DOMAIN d.sps /\ d.sps[n.id].nal = n
    <3>1. r = e
      BY <1>5, <2>3 DEF decode_nal_sps
    <3>2. Level(d.vps, d.sps, Without(d.pending_sps, {n.id}), new["sps"], {})
      BY <1>1, <1>2, <2>3, LevelRepeat
    <3> HIDE DEF r, e
    <3>3. Sound(e, new, {}, {})
      BY <2>1, <3>2, Tried DEF Sound
    <3> QED  BY <2>1, <2>2, <3>1, <3>3 DEF r
  <2>4. CASE ~(n.id \in DOMAIN d.sps /\ d.sps[n.id].nal = n)
    <3> DEFINE v == [nal |-> n, on |-> d.vps[n.dep]]
               gone == DOMAIN d.sps \cap {n.id}
               ppss == Users(d, {n.id})
    <3>1. r = [remove_sps(e, {n.id}) EXCEPT !.sps = Put(@, n.id, v)]
      BY <1>5, <2>4 DEF decode_nal_sps
    <3>9. Users(e, {n.id}) = ppss
      BY <2>1 DEF Users
    <3> HIDE DEF r, e, gone, ppss
    <3>2. /\ Shape(remove_sps(e, {n.id}))
          /\ remove_sps(e, {n.id}).vps = d.vps
          /\ remove_sps(e, {n.id}).sps = Without(d.sps, gone)
          /\ remove_sps(e, {n.id}).pps = Without(d.pps, ppss)
          /\ remove_sps(e, {n.id}).pending_sps = Without(d.pending_sps, {n.id})
          /\ remove_sps(e, {n.id}).pending_pps = Over(d.pending_pps, Waiting(d.pps, ppss))
      <4>1. /\ Shape(remove_sps(e, {n.id}))
            /\ remove_sps(e, {n.id}).vps = e.vps
            /\ remove_sps(e, {n.id}).sps = Without(e.sps, DOMAIN e.sps \cap {n.id})
            /\ remove_sps(e, {n.id}).pps = Without(e.pps, Users(e, {n.id}))
            /\ remove_sps(e, {n.id}).pending_sps = e.pending_sps
            /\ remove_sps(e, {n.id}).pending_pps =
                   Over(e.pending_pps, Waiting(e.pps, Users(e, {n.id})))
        BY ZenonT(60), <2>1, RemoveSps
      <4> QED  BY <2>1, <3>9, <4>1 DEF gone
    <3> HIDE DEF v
    <3>3. Put(Without(d.sps, gone), n.id, v) = Put(d.sps, n.id, v)
      BY PutWithout DEF gone
    <3>4. /\ Shape(r)
          /\ r.vps = d.vps
          /\ r.sps = Put(d.sps, n.id, v)
          /\ r.pps = Without(d.pps, ppss)
          /\ r.pending_sps = Without(d.pending_sps, {n.id})
          /\ r.pending_pps = Over(d.pending_pps, Waiting(d.pps, ppss))
      BY <3>1, <3>2, <3>3 DEF Shape
    <3>5. Level(d.vps, Put(d.sps, n.id, v), Without(d.pending_sps, {n.id}), new["sps"], {})
      BY <1>1, <1>2, <1>5, LevelStore DEF v
    <3>6. Level(r.sps, r.pps, r.pending_pps, new["pps"], {})
      <4>1. \A j \in DOMAIN d.sps \ gone : j \in DOMAIN r.sps /\ r.sps[j] = d.sps[j]
        BY <3>4 DEF Put, gone
      <4>2. Level(d.sps, d.pps, d.pending_pps, new["pps"], {})
        BY DEF Sound
      <4>4. /\ ppss \subseteq DOMAIN d.pps
            /\ \A i \in DOMAIN d.pps : i \in ppss <=> d.pps[i].nal.dep \in gone
        BY DEF ppss, gone, Users
      <4>3. Level(r.sps, Without(d.pps, ppss), Over(d.pending_pps, Waiting(d.pps, ppss)), new["pps"], {})
        BY ZenonT(60), <1>1, <4>1, <4>2, <4>4, LevelGone
      <4> QED  BY <3>4, <4>3
    <3>7. \A i \in DOMAIN r.sps : r.sps[i] \in Stored
      <4>1. v \in Stored
        BY <1>1, <1>5 DEF v, Stored, Arrived, Sound
      <4> QED  BY <3>4, <4>1 DEF Put, Sound
    <3>8. Sound(r, new, {}, {})
      <4>1. TriedSps(r.pending_sps) /\ TriedPps(r.pending_pps)
        BY <3>4, Tried DEF Sound
      <4> QED  BY <3>4, <3>5, <3>6, <3>7, <4>1 DEF Sound
    <3> QED  BY <2>2, <3>4, <3>8 DEF r
  <2> QED  BY <2>3, <2>4
<1> QED  BY <1>3, <1>4, <1>5

(* The same for a PPS, which never changes the SPSs. *)
LEMMA SoundPps ==
    ASSUME NEW d, NEW new, NEW n \in ParameterSet,
           AllArrived(new), n.id \in DOMAIN new["pps"], new["pps"][n.id] = n,
           Sound(d, new, {}, {n.id})
    PROVE  /\ Sound(decode_nal_pps(d, n), new, {}, {})
           /\ decode_nal_pps(d, n).vps = d.vps
           /\ decode_nal_pps(d, n).sps = d.sps
           /\ decode_nal_pps(d, n).pending_sps = d.pending_sps
           /\ n.id \in DOMAIN decode_nal_pps(d, n).pending_pps =>
                  n.dep \notin DOMAIN d.sps \/ ~Parses(n, d.sps[n.dep].nal)
<1> DEFINE r == decode_nal_pps(d, n)
           same == /\ Shape(r)
                   /\ r.vps = d.vps /\ r.sps = d.sps
                   /\ r.pending_sps = d.pending_sps
<1>1. Arrived(new["pps"])
  BY DEF AllArrived, Kinds
<1>2. Level(d.sps, d.pps, d.pending_pps, new["pps"], {n.id})
  BY DEF Sound
<1>3. n.id \notin DOMAIN Without(d.pending_pps, {n.id})
  BY DEF Without
<1>4. CASE n.id \in DOMAIN d.pps /\ d.pps[n.id].nal = n
  <2>1. r = [d EXCEPT !.pending_pps = Without(@, {n.id})]
    BY <1>4 DEF decode_nal_pps
  <2> HIDE DEF r
  <2>2. same /\ r.pps = d.pps /\ r.pending_pps = Without(d.pending_pps, {n.id})
    BY <2>1 DEF Shape, Sound
  <2>3. Level(d.sps, d.pps, Without(d.pending_pps, {n.id}), new["pps"], {})
    BY <1>1, <1>2, <1>4, LevelRepeat
  <2>4. Sound(r, new, {}, {})
    BY <2>2, <2>3, Tried DEF Sound
  <2> QED  BY <1>3, <2>2, <2>4 DEF r
<1>5. CASE /\ ~(n.id \in DOMAIN d.pps /\ d.pps[n.id].nal = n)
           /\ n.dep \notin DOMAIN d.sps
  <2>1. r = [d EXCEPT !.pending_pps = keep_pending(@, n, None)]
    BY <1>5 DEF decode_nal_pps
  <2> HIDE DEF r
  <2>2. same /\ r.pps = d.pps /\ r.pending_pps = keep_pending(d.pending_pps, n, None)
    BY <2>1 DEF Shape, Sound
  <2>3. Level(d.sps, d.pps, keep_pending(d.pending_pps, n, None), new["pps"], {})
    BY <1>1, <1>2, LevelKeep
  <2>4. Sound(r, new, {}, {})
    BY <2>2, <2>3, Tried DEF Sound
  <2> QED  BY <1>5, <2>2, <2>4 DEF r
<1>6. CASE /\ ~(n.id \in DOMAIN d.pps /\ d.pps[n.id].nal = n)
           /\ n.dep \in DOMAIN d.sps /\ ~Parses(n, d.sps[n.dep].nal)
  <2>1. r = [d EXCEPT !.pending_pps = keep_pending(@, n, d.sps[n.dep])]
    BY <1>6 DEF decode_nal_pps
  <2> HIDE DEF r
  <2>2. same /\ r.pps = d.pps /\ r.pending_pps = keep_pending(d.pending_pps, n, d.sps[n.dep])
    BY <2>1 DEF Shape, Sound
  <2>3. Level(d.sps, d.pps, keep_pending(d.pending_pps, n, d.sps[n.dep]), new["pps"], {})
    BY <1>1, <1>2, LevelKeep
  <2>4. TriedPps(keep_pending(d.pending_pps, n, d.sps[n.dep]))
    BY <1>6 DEF TriedPps, keep_pending, Put, Sound
  <2>5. Sound(r, new, {}, {})
    BY <2>2, <2>3, <2>4 DEF Sound
  <2> QED  BY <1>6, <2>2, <2>5 DEF r
<1>7. CASE /\ ~(n.id \in DOMAIN d.pps /\ d.pps[n.id].nal = n)
           /\ n.dep \in DOMAIN d.sps /\ Parses(n, d.sps[n.dep].nal)
  <2> DEFINE v == [nal |-> n, on |-> d.sps[n.dep]]
  <2>1. r = [d EXCEPT !.pending_pps = Without(@, {n.id}), !.pps = Put(@, n.id, v)]
    BY <1>7 DEF decode_nal_pps
  <2> HIDE DEF r, v
  <2>2. /\ same
        /\ r.pps = Put(d.pps, n.id, v)
        /\ r.pending_pps = Without(d.pending_pps, {n.id})
    BY ZenonT(60), <2>1 DEF Shape, Sound
  <2>3. Level(d.sps, Put(d.pps, n.id, v), Without(d.pending_pps, {n.id}), new["pps"], {})
    BY <1>1, <1>2, <1>7, LevelStore DEF v
  <2>4. Sound(r, new, {}, {})
    BY <2>2, <2>3, Tried DEF Sound
  <2> QED  BY <1>3, <2>2, <2>4 DEF r
<1> QED  BY <1>4, <1>5, <1>6, <1>7

-----------------------------------------------------------------------------
(* What is pending is the newest of its id; what is stored under an id     *)
(* with nothing pending, too.                                              *)
LEMMA LevelNewest ==
    ASSUME NEW dep, NEW stored, NEW pend, NEW new, NEW id,
           Arrived(new), Level(dep, stored, pend, new, {})
    PROVE  /\ id \in DOMAIN pend =>
                  id \in DOMAIN new /\ pend[id].nal = new[id]
           /\ id \in DOMAIN stored =>
                  id \in DOMAIN new /\ (id \in DOMAIN pend \/ stored[id].nal = new[id])
           /\ id \in DOMAIN new =>
                  /\ new[id] \in ParameterSet /\ new[id].id = id
                  /\ id \in DOMAIN pend \/ id \in DOMAIN stored
BY DEF Level, Kept, Arrived

(* An SPS is pending after an attempt only without its VPS or if it fails. *)
LEMMA ResolveSps ==
    ASSUME NEW d, NEW new, NEW id, AllArrived(new), Sound(d, new, {}, {})
    PROVE  LET e == resolve_pending_sps(d, id)
               n == new["sps"][id]
           IN  /\ Sound(e, new, {}, {})
               /\ id \in DOMAIN e.pending_sps =>
                      waits_sps(d, id) \/ Fails(n, d.vps)
               /\ waits_sps(d, id) => n.dep \notin DOMAIN d.vps
<1> DEFINE e == resolve_pending_sps(d, id)
           n == new["sps"][id]
<1>1. Arrived(new["sps"]) /\ Arrived(new["vps"])
  BY DEF AllArrived, Kinds
<1>2. Level(d.vps, d.sps, d.pending_sps, new["sps"], {})
  BY DEF Sound
<1>3. CASE id \notin DOMAIN d.pending_sps
  <2>1. e = d
    BY <1>3 DEF resolve_pending_sps
  <2> QED  BY <1>3, <2>1 DEF waits_sps
<1>4. CASE id \in DOMAIN d.pending_sps
  <2>1. /\ id \in DOMAIN new["sps"] /\ d.pending_sps[id].nal = n
        /\ n \in ParameterSet /\ n.id = id
    BY <1>1, <1>2, <1>4, LevelNewest
  <2>2. CASE n.dep \notin DOMAIN d.vps
    <3>1. waits_sps(d, id)
      BY <1>4, <2>1, <2>2 DEF waits_sps
    <3>2. e = d
      BY <3>1 DEF resolve_pending_sps
    <3> QED  BY <2>2, <3>1, <3>2
  <2>3. CASE n.dep \in DOMAIN d.vps
    <3>1. ~waits_sps(d, id)
      BY <2>1, <2>3 DEF waits_sps
    <3>2. CASE d.pending_sps[id].failed = d.vps[n.dep]
      <4>1. e = d
        BY <2>1, <3>2 DEF resolve_pending_sps
      <4>2. d.vps[n.dep] # None
        BY <1>1, <2>3, ParamSetsAssumption DEF Arrived, Sound
      <4>3. Fails(n, d.vps)
        BY <1>4, <2>1, <2>3, <3>2, <4>2 DEF Fails, Sound, TriedSps
      <4> QED  BY <3>1, <4>1, <4>3
    <3>3. CASE d.pending_sps[id].failed # d.vps[n.dep]
      <4>1. e = decode_nal_sps(d, n)
        BY <1>4, <2>1, <3>1, <3>3 DEF resolve_pending_sps
      <4>2. Sound(d, new, {n.id}, {})
        BY LevelWeaken DEF Sound
      <4>3. /\ Sound(e, new, {}, {})
            /\ id \in DOMAIN e.pending_sps => ~Parses(n, d.vps[n.dep])
        BY <2>1, <2>3, <4>1, <4>2, SoundSps
      <4> QED  BY <2>3, <3>1, <4>3 DEF Fails
    <3> QED  BY <3>2, <3>3
  <2> QED  BY <2>2, <2>3
<1> QED  BY <1>3, <1>4

(* The same for a PPS. *)
LEMMA ResolvePps ==
    ASSUME NEW d, NEW new, NEW id, AllArrived(new), Sound(d, new, {}, {})
    PROVE  LET e == resolve_pending_pps(d, id)
               n == new["pps"][id]
           IN  /\ Sound(e, new, {}, {})
               /\ e.vps = d.vps /\ e.sps = d.sps
               /\ e.pending_sps = d.pending_sps
               /\ id \in DOMAIN e.pending_pps =>
                      \/ waits_pps(d, id)
                      \/ n.dep \in DOMAIN d.sps /\ ~Parses(n, d.sps[n.dep].nal)
<1> DEFINE e == resolve_pending_pps(d, id)
           n == new["pps"][id]
<1>1. Arrived(new["pps"])
  BY DEF AllArrived, Kinds
<1>2. Level(d.sps, d.pps, d.pending_pps, new["pps"], {})
  BY DEF Sound
<1>3. CASE id \notin DOMAIN d.pending_pps \/ waits_pps(d, id)
  <2>1. e = d
    BY SMTT(60), <1>3 DEF resolve_pending_pps
  <2> QED  BY <1>3, <2>1
<1>4. CASE id \in DOMAIN d.pending_pps /\ ~waits_pps(d, id)
  <2>1. /\ id \in DOMAIN new["pps"] /\ d.pending_pps[id].nal = n
        /\ n \in ParameterSet /\ n.id = id
    BY <1>1, <1>2, <1>4, LevelNewest
  <2>2. n.dep \in DOMAIN d.sps
    BY <1>4, <2>1 DEF waits_pps
  <2>3. CASE d.pending_pps[id].failed = d.sps[n.dep]
    <3>1. e = d
      BY <2>1, <2>3 DEF resolve_pending_pps
    <3>2. d.sps[n.dep] # None
      BY <2>2, ParamSetsAssumption DEF Sound
    <3>3. ~Parses(n, d.sps[n.dep].nal)
      BY <1>4, <2>1, <2>3, <3>2 DEF Sound, TriedPps
    <3> QED  BY <2>2, <3>1, <3>3
  <2>4. CASE d.pending_pps[id].failed # d.sps[n.dep]
    <3>1. e = decode_nal_pps(d, n)
      BY <1>4, <2>1, <2>4 DEF resolve_pending_pps
    <3>2. Sound(d, new, {}, {n.id})
      BY LevelWeaken DEF Sound
    <3>3. /\ Sound(e, new, {}, {})
          /\ e.vps = d.vps /\ e.sps = d.sps /\ e.pending_sps = d.pending_sps
          /\ id \in DOMAIN e.pending_pps => ~Parses(n, d.sps[n.dep].nal)
      BY ZenonT(60), <2>1, <2>2, <3>1, <3>2, SoundPps
    <3> QED  BY <2>2, <3>3
  <2> QED  BY <2>3, <2>4
<1> QED  BY <1>3, <1>4

(***************************************************************************)
(* A picture that refers to the PPS id in d may be decoded: the first two  *)
(* conjuncts of UsesNewest.                                                *)
(***************************************************************************)
Ready(d, new, id, irap) ==
    id \in DOMAIN d.pps =>
        LET pps == new["pps"][id]
            nal == d.pps[id].nal
            sps == new["sps"][nal.dep]
        IN  /\ \/ nal = pps
               \/ pps.dep \in DOMAIN d.sps /\ ~Parses(pps, d.sps[pps.dep].nal)
            /\ nal = pps => \/ d.sps[nal.dep].nal = sps
                            \/ Fails(sps, d.vps)
                            \/ ~irap /\ sps.dep \notin DOMAIN d.vps

(* Activation resolves the SPS that the newest PPS names, then that PPS. *)
LEMMA Activate ==
    ASSUME NEW d, NEW new, NEW id, NEW irap \in BOOLEAN,
           AllArrived(new), Sound(d, new, {}, {})
    PROVE  LET a == ps_activate(d, id, irap)
           IN  /\ a = [d |-> a.d, ok |-> a.ok] /\ a.ok \in BOOLEAN
               /\ Sound(a.d, new, {}, {})
               /\ a.ok => Ready(a.d, new, id, irap)
<1> DEFINE a == ps_activate(d, id, irap)
           S == needed_sps(d, id)
           i == CHOOSE j \in S : TRUE
           e == IF S = {} THEN d ELSE resolve_pending_sps(d, i)
           r == resolve_pending_pps(e, id)
<1>1. Arrived(new["pps"]) /\ Arrived(new["sps"])
  BY DEF AllArrived, Kinds
<1>2. CASE irap /\ \E j \in S : waits_sps(d, j)
  <2>1. a = [d |-> d, ok |-> FALSE]
    BY <1>2, Zenon DEF ps_activate
  <2> HIDE DEF a
  <2> QED  BY <2>1 DEF a
<1>3. CASE ~(irap /\ \E j \in S : waits_sps(d, j))
  <2>1. a = [d |-> r, ok |-> ~waits_pps(e, id)]
    BY <1>3, Zenon DEF ps_activate
  <2>2. Sound(e, new, {}, {})
    BY ResolveSps
  <2> HIDE DEF e
  <2>3. /\ Sound(r, new, {}, {})
        /\ r.vps = e.vps /\ r.sps = e.sps /\ r.pending_sps = e.pending_sps
        /\ id \in DOMAIN r.pending_pps =>
               \/ waits_pps(e, id)
               \/ /\ new["pps"][id].dep \in DOMAIN e.sps
                  /\ ~Parses(new["pps"][id], e.sps[new["pps"][id].dep].nal)
    BY SMTT(60), <2>2, ResolvePps
  <2> HIDE DEF r
  <2>4. ASSUME ~waits_pps(e, id), id \in DOMAIN r.pps
        PROVE  /\ \/ r.pps[id].nal = new["pps"][id]
                  \/ /\ new["pps"][id].dep \in DOMAIN r.sps
                     /\ ~Parses(new["pps"][id], r.sps[new["pps"][id].dep].nal)
               /\ r.pps[id].nal = new["pps"][id] =>
                      \/ r.sps[r.pps[id].nal.dep].nal = new["sps"][r.pps[id].nal.dep]
                      \/ Fails(new["sps"][r.pps[id].nal.dep], r.vps)
                      \/ ~irap /\ new["sps"][r.pps[id].nal.dep].dep \notin DOMAIN r.vps
    <3> DEFINE n == new["pps"][id]
    <3>1. Level(r.sps, r.pps, r.pending_pps, new["pps"], {})
      BY <2>3 DEF Sound
    <3>2. id \in DOMAIN new["pps"] /\ (id \in DOMAIN r.pending_pps \/ r.pps[id].nal = n)
      BY SMTT(60), <1>1, <2>4, <3>1 DEF Level, Kept, Arrived
    <3>3. ASSUME r.pps[id].nal = n
          PROVE  \/ r.sps[n.dep].nal = new["sps"][n.dep]
                 \/ Fails(new["sps"][n.dep], r.vps)
                 \/ ~irap /\ new["sps"][n.dep].dep \notin DOMAIN r.vps
      <4>1. S = {n.dep}
        <5>1. Level(d.sps, d.pps, d.pending_pps, new["pps"], {})
          BY SMTT(60) DEF Sound
        <5>2. \/ id \in DOMAIN d.pending_pps /\ d.pending_pps[id].nal = n
              \/ /\ id \notin DOMAIN d.pending_pps /\ id \in DOMAIN d.pps
                 /\ d.pps[id].nal = n
          BY <1>1, <3>2, <5>1 DEF Level, Kept, Arrived
        <5> QED  BY <5>2 DEF needed_sps
      <4>2. i = n.dep
        <5> HIDE DEF S, n
        <5> QED  BY <4>1
      <4>3. e = resolve_pending_sps(d, n.dep)
        BY <4>1, <4>2 DEF e
      <4>4. /\ n.dep \in DOMAIN e.pending_sps =>
                   waits_sps(d, n.dep) \/ Fails(new["sps"][n.dep], d.vps)
            /\ waits_sps(d, n.dep) => new["sps"][n.dep].dep \notin DOMAIN d.vps
        BY <4>3, ResolveSps
      <4>5. waits_sps(d, n.dep) => ~irap
        BY <1>3, <4>1
      <4>6. r.vps = d.vps
        BY <2>3 DEF Sound
      <4>7. n.dep \in DOMAIN r.sps
        BY <2>4, <3>1, <3>3 DEF Level
      <4>8. Level(r.vps, r.sps, r.pending_sps, new["sps"], {})
        BY SMTT(60), <2>3 DEF Sound
      <4>9. n.dep \in DOMAIN r.pending_sps \/ r.sps[n.dep].nal = new["sps"][n.dep]
        BY SMTT(60), <1>1, <4>7, <4>8 DEF Level, Kept, Arrived
      <4> QED  BY <2>3, <4>4, <4>5, <4>6, <4>9
    <3> QED  BY <2>3, <2>4, <3>2, <3>3
  <2>5. ~waits_pps(e, id) => Ready(r, new, id, irap)
    BY <2>4 DEF Ready
  <2>6. waits_pps(e, id) \in BOOLEAN
    BY DEF waits_pps
  <2> HIDE DEF a
  <2>7. a.d = r /\ a.ok = ~waits_pps(e, id) /\ a = [d |-> a.d, ok |-> a.ok]
    BY <2>1
  <2> QED  BY ZenonT(60), <2>3, <2>5, <2>6, <2>7 DEF a
<1> QED  BY <1>2, <1>3

(* activate_parameter_sets only adds the record of refused IRAP pictures. *)
LEMMA ActivateSlice ==
    ASSUME NEW d, NEW new, NEW s \in Slice,
           AllArrived(new), Sound(d, new, {}, {})
    PROVE  LET a == activate_parameter_sets(d, s)
           IN  /\ Sound(a.d, new, {}, {})
               /\ a.ok => Ready(a.d, new, s.pps, s.irap)
<1> DEFINE a == activate_parameter_sets(d, s)
           b == ps_activate(d, s.pps, s.irap)
<1>1. s.irap \in BOOLEAN
  BY DEF Slice
<1>2. /\ b = [d |-> b.d, ok |-> b.ok] /\ b.ok \in BOOLEAN
      /\ Sound(b.d, new, {}, {})
      /\ b.ok => Ready(b.d, new, s.pps, s.irap)
  BY <1>1, Activate
<1>3. CASE s.irap
  <2>1. a = [b EXCEPT !.d.refused = ~b.ok]
    BY <1>3, Zenon DEF activate_parameter_sets
  <2> HIDE DEF a, b
  <2>2. a.d = [b.d EXCEPT !.refused = ~b.ok] /\ a.ok = b.ok
    BY <1>2, <2>1
  <2>3. /\ Shape(a.d)
        /\ a.d.vps = b.d.vps /\ a.d.sps = b.d.sps /\ a.d.pps = b.d.pps
        /\ a.d.pending_sps = b.d.pending_sps /\ a.d.pending_pps = b.d.pending_pps
    BY <1>2, <2>2 DEF Sound, Shape
  <2>4. Sound(a.d, new, {}, {})
    BY SMTT(60), <1>2, <2>3 DEF Sound
  <2>5. a.ok => Ready(a.d, new, s.pps, s.irap)
    <3> SUFFICES ASSUME a.ok PROVE Ready(a.d, new, s.pps, s.irap)
      OBVIOUS
    <3>1. Ready(b.d, new, s.pps, s.irap)
      BY <1>2, <2>2
    <3> QED  BY ZenonT(60), <2>3, <3>1 DEF Ready, Fails
  <2> QED  BY <2>4, <2>5 DEF a
<1>4. CASE ~s.irap
  <2>1. a = [b EXCEPT !.ok = @ /\ ~d.refused]
    BY <1>4, Zenon DEF activate_parameter_sets
  <2> HIDE DEF a, b
  <2>2. a.d = b.d /\ (a.ok => b.ok)
    BY <1>2, <2>1
  <2> QED  BY <1>2, <2>2 DEF a
<1> QED  BY <1>1, <1>3, <1>4

-----------------------------------------------------------------------------
(* The inductive invariant. *)
Inv ==
    /\ AllArrived(newest)
    /\ Sound(fixed, newest, {}, {})
    /\ UsesNewest

LEMMA InvInit ==
    Init => Inv
<1> SUFFICES ASSUME Init PROVE Inv
  OBVIOUS
<1>1. DOMAIN Nothing = {} /\ Nothing = [i \in {} |-> Nothing[i]]
  BY DEF Nothing
<1>2. newest["vps"] = Nothing /\ newest["sps"] = Nothing /\ newest["pps"] = Nothing
  BY DEF Init, Kinds
<1> HIDE DEF Nothing
<1>3. Arrived(Nothing)
  BY <1>1 DEF Arrived
<1>4. AllArrived(newest)
  BY <1>3 DEF Init, AllArrived
<1>5. /\ Shape(fixed)
      /\ fixed.vps = Nothing /\ fixed.sps = Nothing /\ fixed.pps = Nothing
      /\ fixed.pending_sps = Nothing /\ fixed.pending_pps = Nothing
  BY DEF Init, Empty, Shape
<1>6. Level(Nothing, Nothing, Nothing, Nothing, {})
  BY <1>1 DEF Level
<1>7. TriedSps(Nothing) /\ TriedPps(Nothing)
  BY <1>1 DEF TriedSps, TriedPps
<1>8. Sound(fixed, newest, {}, {})
  BY <1>1, <1>2, <1>5, <1>6, <1>7 DEF Sound
<1> QED  BY <1>4, <1>8 DEF Inv, Init, UsesNewest

LEMMA InvArrive ==
    ASSUME Inv, NEW n \in ParameterSet, Arrive(n)
    PROVE  Inv'
<1>1. n.t \in Kinds
  BY DEF ParameterSet
<1>2. newest' = [newest EXCEPT ![n.t] = Put(@, n.id, n)]
  BY DEF Arrive
<1>3. /\ DOMAIN newest' = Kinds
      /\ newest'[n.t] = Put(newest[n.t], n.id, n)
      /\ \A t \in Kinds \ {n.t} : newest'[t] = newest[t]
  BY <1>1, <1>2 DEF Inv, AllArrived
<1>4. Arrived(Put(newest[n.t], n.id, n))
  BY <1>1 DEF Inv, AllArrived, Arrived, Put
<1>5. AllArrived(newest')
  BY <1>3, <1>4 DEF Inv, AllArrived
<1>6. n.id \in DOMAIN newest'[n.t] /\ newest'[n.t][n.id] = n
  BY <1>3 DEF Put
<1>7. /\ Arrived(newest["sps"]) /\ Arrived(newest["pps"])
      /\ AllArrived(newest) /\ Sound(fixed, newest, {}, {})
  BY DEF Inv, AllArrived, Kinds
<1>8. CASE n.t = "vps"
  <2>1. fixed' = decode_nal_vps(fixed, n)
    BY <1>8 DEF Arrive, decode_nal
  <2>2. Sound(fixed', newest', {}, {})
    BY ZenonT(60), <1>2, <1>7, <1>8, <2>1, SoundVps
  <2> QED  BY <1>5, <2>2 DEF Inv, Arrive, UsesNewest
<1>9. CASE n.t = "sps"
  <2>1. fixed' = decode_nal_sps(fixed, n)
    BY <1>9 DEF Arrive, decode_nal
  <2>2. Level(fixed.vps, fixed.sps, fixed.pending_sps, newest'["sps"], {n.id})
    BY <1>3, <1>7, <1>9, LevelArrive DEF Sound
  <2>3. newest'["vps"] = newest["vps"] /\ newest'["pps"] = newest["pps"]
    BY <1>3, <1>9 DEF Kinds
  <2>4. Sound(fixed, newest', {n.id}, {})
    BY <1>7, <2>2, <2>3 DEF Sound
  <2>5. Sound(fixed', newest', {}, {})
    BY <1>5, <1>6, <1>9, <2>1, <2>4, SoundSps
  <2> QED  BY <1>5, <2>5 DEF Inv, Arrive, UsesNewest
<1>10. CASE n.t = "pps"
  <2>1. fixed' = decode_nal_pps(fixed, n)
    BY <1>10 DEF Arrive, decode_nal
  <2>2. Level(fixed.sps, fixed.pps, fixed.pending_pps, newest'["pps"], {n.id})
    BY <1>3, <1>7, <1>10, LevelArrive DEF Sound
  <2>3. newest'["vps"] = newest["vps"] /\ newest'["sps"] = newest["sps"]
    BY <1>3, <1>10 DEF Kinds
  <2>4. Sound(fixed, newest', {}, {n.id})
    BY <1>7, <2>2, <2>3 DEF Sound
  <2>5. Sound(fixed', newest', {}, {})
    BY <1>5, <1>6, <1>10, <2>1, <2>4, SoundPps
  <2> QED  BY <1>5, <2>5 DEF Inv, Arrive, UsesNewest
<1> QED  BY <1>1, <1>8, <1>9, <1>10 DEF Kinds

LEMMA InvDecodeSlice ==
    ASSUME Inv, NEW s \in Slice, DecodeSlice(s)
    PROVE  Inv'
<1> DEFINE a == activate_parameter_sets(fixed, s)
<1>1. /\ Sound(a.d, newest, {}, {})
      /\ a.ok => Ready(a.d, newest, s.pps, s.irap)
  BY ActivateSlice DEF Inv
<1>2. /\ fixed' = a.d
      /\ used' = IF ~a.ok \/ s.pps \notin DOMAIN a.d.pps THEN None
                 ELSE [slice |-> s,
                       pps |-> a.d.pps[s.pps].nal,
                       sps |-> a.d.pps[s.pps].on.nal,
                       vps |-> a.d.pps[s.pps].on.on]
      /\ newest' = newest
  BY DEF DecodeSlice, decode_slice
<1> HIDE DEF a
<1>3. AllArrived(newest)' /\ Sound(fixed, newest, {}, {})'
  BY <1>1, <1>2 DEF Inv
<1>4. UsesNewest'
  <2> SUFFICES ASSUME used' # None
               PROVE  UsesNewest'
    BY SMTT(60) DEF UsesNewest
  <2> DEFINE nal == fixed'.pps[s.pps].nal
             pps == newest["pps"][s.pps]
             sps == newest["sps"][nal.dep]
  <2>1. /\ s.pps \in DOMAIN fixed'.pps
        /\ Ready(fixed', newest, s.pps, s.irap)
        /\ used'.slice = s /\ used'.pps = nal
        /\ used'.sps = fixed'.pps[s.pps].on.nal
        /\ used'.vps = fixed'.pps[s.pps].on.on
    BY SMTT(60), <1>1, <1>2
  <2>2. /\ nal.dep \in DOMAIN fixed'.sps
        /\ fixed'.pps[s.pps].on = fixed'.sps[nal.dep]
    BY ZenonT(60), <2>1, <1>1, <1>2 DEF Sound, Level
  <2>3. /\ fixed'.sps[nal.dep].nal.dep \in DOMAIN fixed'.vps
        /\ fixed'.sps[nal.dep].on = fixed'.vps[fixed'.sps[nal.dep].nal.dep]
        /\ fixed'.vps = newest["vps"]
    BY ZenonT(60), <2>2, <1>1, <1>2 DEF Sound, Level
  <2>4. /\ \/ nal = pps
           \/ pps.dep \in DOMAIN fixed'.sps /\ ~Parses(pps, fixed'.sps[pps.dep].nal)
        /\ nal = pps => \/ fixed'.sps[nal.dep].nal = sps
                        \/ Fails(sps, fixed'.vps)
                        \/ ~s.irap /\ sps.dep \notin DOMAIN fixed'.vps
    BY ZenonT(60), <2>1 DEF Ready
  <2> DEFINE spss == [i \in DOMAIN fixed'.sps |-> fixed'.sps[i].nal]
  <2>5. used'.pps = pps \/ Fails(pps, spss)
    BY ZenonT(60), <2>1, <2>4 DEF Fails
  <2>6. used'.sps = fixed'.sps[nal.dep].nal
    BY SMTT(60), <2>1, <2>2
  <2>7. used'.vps = newest["vps"][used'.sps.dep]
    BY ZenonT(60), <2>1, <2>2, <2>3, <2>6
  <2>8. used'.slice = s /\ used'.pps = nal /\ newest' = newest
    BY SMTT(60), <1>2, <2>1
  <2> HIDE DEF nal, spss
  <2>9. used'.pps = pps => \/ used'.sps = sps
                           \/ Fails(sps, fixed'.vps)
                           \/ ~s.irap /\ sps.dep \notin DOMAIN fixed'.vps
    BY <2>4, <2>6, <2>8
  <2> QED  BY <2>5, <2>7, <2>8, <2>9 DEF UsesNewest, spss
<1> QED  BY <1>3, <1>4 DEF Inv

LEMMA InvFlush ==
    ASSUME Inv, Flush
    PROVE  Inv'
<1>1. fixed' = [fixed EXCEPT !.refused = FALSE] /\ newest' = newest /\ used' = None
  BY DEF Flush
<1>2. /\ Shape(fixed')
      /\ fixed'.vps = fixed.vps /\ fixed'.sps = fixed.sps /\ fixed'.pps = fixed.pps
      /\ fixed'.pending_sps = fixed.pending_sps
      /\ fixed'.pending_pps = fixed.pending_pps
  BY ZenonT(60), <1>1 DEF Inv, Sound, Shape
<1>3. Sound(fixed', newest, {}, {})
  BY <1>2 DEF Inv, Sound
<1> QED  BY <1>1, <1>3 DEF Inv, UsesNewest

(* Whatever arrives and whatever is decoded, the invariant holds. *)
LEMMA Invariance ==
    Spec => []Inv
<1>1. Inv /\ [Next]_vars => Inv'
  <2> SUFFICES ASSUME Inv, [Next]_vars PROVE Inv'
    OBVIOUS
  <2>1. CASE Next
    BY SMTT(60), <2>1, InvArrive, InvDecodeSlice, InvFlush DEF Next
  <2>2. CASE UNCHANGED vars
    BY <2>2 DEF vars, Inv, UsesNewest
  <2> QED  BY <2>1, <2>2
<1> QED  BY <1>1, InvInit, PTL DEF Spec

(***************************************************************************)
(* For every stream, of any ids and contents and whatever parses against   *)
(* whatever, the newest parameter set of every id is stored or pending and *)
(* nothing older is revived (keep_pending, remove_sps, remove_vps).        *)
(***************************************************************************)
THEOREM NewestIsKept ==
    Spec => []NewestKept
<1>1. Inv => NewestKept
  BY DEF Inv, Sound, Level, NewestKept
<1> QED  BY <1>1, Invariance, PTL

(***************************************************************************)
(* For every stream, every picture is decoded with the newest sets that    *)
(* the rules of activation allow (ff_hevc_ps_activate).                    *)
(***************************************************************************)
THEOREM NewestIsUsed ==
    Spec => []UsesNewest
<1>1. Inv => UsesNewest
  BY DEF Inv
<1> QED  BY <1>1, Invariance, PTL

-----------------------------------------------------------------------------
(***************************************************************************)
(* The synthetic queue and its observers: module SnapshotQueue.            *)
(*                                                                         *)
(* The invariant says what each call of snapshot() has established.  Held: *)
(* a pinned plane has no writer in flight and keeps the writer the pin     *)
(* names.  Quiet: from drain() to resume() the queue is paused or stopped, *)
(* with nothing in flight once drained, and while it runs one observer at  *)
(* a time is there; resume() cannot end another observer's pause.          *)
(***************************************************************************)
CONSTANTS Observer, Allocation, Generation, Length, Policy, Run, MyRun,
          MaxAllocations, MaxPins, MaxJobs, MaxSnapshots

VARIABLES paused, closed, allocations, inflight, completed, next_job, pins,
          data, observer

Q == INSTANCE SnapshotQueue

Plane ==
    [known : {TRUE}, generation : Generation, length : Length,
     policy : Policy, writer : Q!Identity \cup {None}] \cup {Q!NoPlane}

Job ==
    [job : Nat, allocation : Allocation, generation : Generation,
     writes : BOOLEAN]

Bytes == Nat \cup {None}
Slot == [compressed : Bytes, motion : Bytes]
Shot == [identity : Q!Identity, copy : BOOLEAN, bytes : Slot]

PC == {"idle", "pin", "pause", "drain", "validate", "compressed", "motion",
       "clock", "revalidate", "resume", "stop", "unpin", "failed", "publish"}

Snapshot ==
    [pc : PC, identity : Q!Identity \cup {None}, length : Length \cup {0},
     copy : BOOLEAN, slot : Slot, stopped : BOOLEAN, snapshots : Seq(Shot)]

QueueTyped ==
    /\ paused \in BOOLEAN
    /\ closed \in BOOLEAN
    /\ allocations \in [Allocation -> Plane]
    /\ inflight \in SUBSET Job
    /\ next_job \in Nat
    /\ pins \in [Observer -> Q!Identity \cup {None}]
    /\ data \in [Allocation -> Bytes]
    /\ observer \in [Observer -> Snapshot]
    /\ \A o \in Observer :
          observer[o].pc \notin {"idle", "stop", "failed"}
              => observer[o].identity \in Q!Identity

(* The jobs in flight have their planes. *)
Placed ==
    \A j \in inflight : allocations[j.allocation].known

(* A plane that is not being written holds what its last writer left. *)
Settled ==
    \A a \in Allocation :
        allocations[a].known /\ allocations[a].writer # None =>
            \/ Q!Writing(a)
            \/ data[a] = allocations[a].writer.writer_job

Held ==
    \A o \in Observer :
        pins[o] # None =>
            /\ allocations[pins[o].allocation].known
            /\ allocations[pins[o].allocation].writer = pins[o]
            /\ ~Q!Writing(pins[o].allocation)

(* A snapshot between pin() and unpin() has its pin. *)
HasPin ==
    \A o \in Observer :
        observer[o].pc \in {"pause", "drain", "validate", "compressed",
                            "motion", "clock", "revalidate", "resume", "unpin"}
            => pins[o] = observer[o].identity

Drained(o) ==
    observer[o].pc \in {"validate", "compressed", "motion", "clock",
                        "revalidate", "resume"}

Pausing(o) ==
    Q!At(o, "drain") \/ Drained(o)

Quiet ==
    /\ \A o \in Observer : Pausing(o) => paused \/ closed
    /\ \A o \in Observer : Drained(o) => inflight = {}
    /\ ~closed => \A o, p \in Observer : Pausing(o) /\ Pausing(p) => o = p

(* What has been copied. *)
Copied ==
    \A o \in Observer :
        observer[o].copy =>
            /\ observer[o].pc \in {"motion", "clock", "revalidate", "resume",
                                   "unpin", "publish"}
               => observer[o].slot.compressed = observer[o].identity.writer_job
            /\ observer[o].pc \in {"clock", "revalidate", "resume", "unpin",
                                   "publish"}
               => observer[o].slot.motion = observer[o].identity.writer_job

TrueShot(s) ==
    s.copy => s.bytes = [compressed |-> s.identity.writer_job,
                         motion |-> s.identity.writer_job]

Shown ==
    \A o \in Observer : \A n \in DOMAIN observer[o].snapshots :
        TrueShot(observer[o].snapshots[n])

QueueInv ==
    /\ QueueTyped /\ Placed /\ Settled /\ Held
    /\ HasPin /\ Quiet /\ Copied /\ Shown

-----------------------------------------------------------------------------
LEMMA IdleTyped ==
    /\ Q!Idle \in Snapshot
    /\ Q!Idle.pc = "idle" /\ Q!Idle.copy = FALSE /\ Q!Idle.snapshots = <<>>
BY DEF Q!Idle, Snapshot, PC, Slot, Bytes

(* What a snapshot that is over leaves of its locals. *)
LEMMA OverTyped ==
    ASSUME QueueTyped, NEW o \in Observer, NEW pc \in {"idle", "stop"}
    PROVE  /\ Q!Over(o, pc) \in Snapshot
           /\ Q!Over(o, pc).pc = pc
           /\ Q!Over(o, pc).copy = FALSE
           /\ Q!Over(o, pc).snapshots = observer[o].snapshots
BY ZenonT(60) DEF Q!Over, Q!Idle, QueueTyped, Snapshot, PC, Slot, Bytes

LEMMA KnownPlane ==
    ASSUME NEW p \in Plane, p.known
    PROVE  p \in [known : {TRUE}, generation : Generation, length : Length,
                  policy : Policy, writer : Q!Identity \cup {None}]
           /\ p.generation \in Generation
<1>1. p # Q!NoPlane
  BY DEF Q!NoPlane
<1>2. p \in [known : {TRUE}, generation : Generation, length : Length,
             policy : Policy, writer : Q!Identity \cup {None}]
  BY <1>1, Zenon DEF Plane
<1> QED  BY ZenonT(60), <1>2

LEMMA QueueInvInit ==
    Q!Init => QueueInv
<1> SUFFICES ASSUME Q!Init PROVE QueueInv
  OBVIOUS
<1>1. QueueTyped
  BY ZenonT(60), IdleTyped DEF Q!Init, QueueTyped, Plane, Bytes
<1>2. \A o \in Observer : observer[o].pc = "idle" /\ observer[o].copy = FALSE
                          /\ observer[o].snapshots = <<>> /\ pins[o] = None
  BY IdleTyped DEF Q!Init
<1>3. Placed /\ Settled
  BY DEF Q!Init, Placed, Settled, Q!NoPlane
<1>4. Held /\ HasPin /\ Quiet /\ Copied /\ Shown
  BY <1>2 DEF Held, HasPin, Quiet, Pausing, Drained, Q!At, Copied, Shown
<1> QED  BY <1>1, <1>3, <1>4 DEF QueueInv

-----------------------------------------------------------------------------
(* Every step of a snapshot moves one observer, and no other. *)
LEMMA GoesOnMoves ==
    ASSUME QueueTyped, NEW o \in Observer, NEW ok, NEW pc \in PC, Q!GoesOn(o, ok, pc),
           observer[o].pc \notin {"idle", "stop", "failed"}
    PROVE  /\ observer' \in [Observer -> Snapshot]
           /\ \A p \in Observer : p # o => observer'[p] = observer[p]
           /\ observer'[o].snapshots = observer[o].snapshots
           /\ ok => /\ observer'[o].pc = pc
                    /\ observer'[o].identity = observer[o].identity
                    /\ observer'[o].copy = observer[o].copy
                    /\ observer'[o].slot = observer[o].slot
           /\ ~ok => observer'[o].pc = "stop" /\ observer'[o].copy = FALSE
<1>1. observer[o] \in Snapshot
  BY DEF QueueTyped
<1>2. Q!Over(o, "stop") \in Snapshot
  BY ZenonT(60), OverTyped
<1>3. [observer[o] EXCEPT !.pc = pc] \in Snapshot
  BY <1>1 DEF Snapshot
<1>4. observer' = [observer EXCEPT ![o] =
                      IF ok THEN [observer[o] EXCEPT !.pc = pc] ELSE Q!Over(o, "stop")]
  BY DEF Q!GoesOn
<1>5. observer \in [Observer -> Snapshot]
  BY DEF QueueTyped
<1>6. /\ observer' \in [Observer -> Snapshot]
      /\ \A p \in Observer : p # o => observer'[p] = observer[p]
      /\ observer'[o] = IF ok THEN [observer[o] EXCEPT !.pc = pc] ELSE Q!Over(o, "stop")
  BY <1>2, <1>3, <1>4, <1>5
<1>7. CASE ok
  BY <1>1, <1>6, <1>7 DEF Snapshot
<1>8. CASE ~ok
  BY ZenonT(60), <1>6, <1>8, OverTyped
<1> QED  BY ZenonT(60), <1>6, <1>7, <1>8

LEMMA ObserverSame ==
    ASSUME QueueInv, UNCHANGED <<observer, pins>>
    PROVE  HasPin' /\ Copied' /\ Shown'
BY DEF QueueInv, HasPin, Copied, Shown, TrueShot

LEMMA ShownSame ==
    ASSUME QueueInv,
           \A p \in Observer : observer'[p].snapshots = observer[p].snapshots
    PROVE  Shown'
BY DEF QueueInv, Shown, TrueShot

LEMMA PlanesSame ==
    ASSUME QueueInv, UNCHANGED <<allocations, inflight, pins, data>>
    PROVE  Placed' /\ Settled' /\ Held'
BY DEF QueueInv, Placed, Settled, Held, Q!Writing

LEMMA AllocateInv ==
    ASSUME QueueInv, NEW a \in Allocation, Q!Allocate(a)
    PROVE  QueueInv'
<1>1. PICK g \in Generation, l \in Length, p \in Policy :
         allocations' = [allocations EXCEPT ![a] =
             [known |-> TRUE, generation |-> g, length |-> l, policy |-> p,
              writer |-> None]]
  BY ZenonT(60) DEF Q!Allocate
<1>2. /\ UNCHANGED <<paused, closed, inflight, next_job, pins, data, observer>>
      /\ ~allocations[a].known
  BY DEF Q!Allocate
<1>3. QueueTyped'
  BY ZenonT(60), <1>1, <1>2 DEF QueueInv, QueueTyped, Plane
<1>4. Placed' /\ Settled' /\ Held'
  BY <1>1, <1>2 DEF QueueInv, QueueTyped, Placed, Settled, Held, Q!Writing, Job, Q!Identity
<1>5. Quiet'
  BY <1>2 DEF QueueInv, Quiet, Pausing, Drained, Q!At
<1> QED  BY <1>2, <1>3, <1>4, <1>5, ObserverSame DEF QueueInv

LEMMA ReleaseInv ==
    ASSUME QueueInv, NEW a \in Allocation, Q!Release(a)
    PROVE  QueueInv'
<1>1. /\ allocations' = [allocations EXCEPT ![a] = Q!NoPlane]
      /\ data' = [data EXCEPT ![a] = 0]
      /\ UNCHANGED <<paused, closed, inflight, next_job, pins, observer>>
      /\ ~Q!Pinned(a)
      /\ \A j \in inflight : j.allocation # a
  BY DEF Q!Release
<1>2. QueueTyped'
  BY ZenonT(60), <1>1 DEF QueueInv, QueueTyped, Plane, Bytes
<1>3. \A o \in Observer : pins[o] # None => pins[o].allocation # a
  BY SMTT(60), <1>1 DEF Q!Pinned
<1>4. Placed' /\ Held'
  BY <1>1, <1>3 DEF QueueInv, QueueTyped, Placed, Held, Q!Writing, Job, Q!Identity
<1>5. Settled'
  BY <1>1 DEF QueueInv, QueueTyped, Settled, Q!Writing, Q!NoPlane
<1>6. Quiet'
  BY <1>1 DEF QueueInv, Quiet, Pausing, Drained, Q!At
<1> QED  BY <1>1, <1>2, <1>4, <1>5, <1>6, ObserverSame DEF QueueInv

LEMMA SubmitInv ==
    ASSUME QueueInv, NEW a \in Allocation, NEW writes \in BOOLEAN, Q!Submit(a, writes)
    PROVE  QueueInv'
<1> DEFINE j == [job |-> next_job, allocation |-> a,
                 generation |-> allocations[a].generation, writes |-> writes]
<1>1. /\ ~closed /\ ~paused
      /\ allocations[a].known
      /\ writes => ~Q!Pinned(a)
      /\ inflight' = inflight \cup {j}
      /\ next_job' = next_job + 1
      /\ UNCHANGED <<paused, closed, allocations, pins, data, observer>>
  BY DEF Q!Submit
<1>2. /\ j.allocation = a /\ j.writes = writes
      /\ j.job = next_job /\ j.generation = allocations[a].generation
  OBVIOUS
<1>3. j \in Job
  <2>1. allocations[a].generation \in Generation
    BY ZenonT(60), <1>1, KnownPlane DEF QueueInv, QueueTyped
  <2> QED  BY <2>1 DEF QueueInv, QueueTyped, Job
<1> HIDE DEF j
<1>4. QueueTyped'
  BY <1>1, <1>3 DEF QueueInv, QueueTyped
<1>5. Placed'
  BY <1>1, <1>2 DEF QueueInv, Placed
<1>6. Settled'
  BY <1>1 DEF QueueInv, Settled, Q!Writing
<1>7. Held'
  <2> SUFFICES ASSUME NEW o \in Observer, pins[o] # None
               PROVE  /\ allocations[pins[o].allocation].known
                      /\ allocations[pins[o].allocation].writer = pins[o]
                      /\ ~Q!Writing(pins[o].allocation)'
    BY <1>1 DEF Held, Q!Writing
  <2>1. writes => pins[o].allocation # a
    BY <1>1 DEF Q!Pinned
  <2> QED  BY <1>1, <1>2, <2>1 DEF QueueInv, Held, Q!Writing
<1>8. Quiet'
  BY <1>1 DEF QueueInv, Quiet, Pausing, Drained, Q!At
<1> QED  BY <1>1, <1>4, <1>5, <1>6, <1>7, <1>8, ObserverSame DEF QueueInv

LEMMA WriteInv ==
    ASSUME QueueInv, NEW j \in inflight, Q!Write(j)
    PROVE  QueueInv'
<1>1. /\ j.writes
      /\ data' = [data EXCEPT ![j.allocation] = None]
      /\ UNCHANGED <<paused, closed, allocations, inflight, next_job, pins, observer>>
  BY DEF Q!Write, Q!queue
<1>2. QueueTyped'
  BY ZenonT(60), <1>1 DEF QueueInv, QueueTyped, Bytes
<1>3. Placed' /\ Held' /\ Settled'
  BY SMTT(60), <1>1 DEF QueueInv, QueueTyped, Placed, Held, Settled, Q!Writing
<1>4. Quiet'
  BY <1>1 DEF QueueInv, Quiet, Pausing, Drained, Q!At
<1> QED  BY <1>1, <1>2, <1>3, <1>4, ObserverSame DEF QueueInv

LEMMA CompleteInv ==
    ASSUME Q!SnapshotAssumption, QueueInv, NEW j \in inflight, Q!Complete(j)
    PROVE  QueueInv'
<1> DEFINE a == j.allocation
           i == [run |-> MyRun, allocation |-> a, generation |-> j.generation,
                 writer_job |-> j.job]
<1>1. /\ j \in Job /\ a \in Allocation /\ allocations[a].known
      /\ allocations[a] \in Plane
  BY SMTT(60) DEF QueueInv, QueueTyped, Placed, Job
<1>2. i \in Q!Identity /\ i.writer_job = j.job /\ i # None
  BY <1>1 DEF Q!SnapshotAssumption, Q!Identity, Job
<1>3. /\ inflight' = inflight \ {j}
      /\ UNCHANGED <<paused, closed, next_job, pins, observer>>
      /\ data' = IF j.writes THEN [data EXCEPT ![a] = j.job] ELSE data
  BY DEF Q!Complete
<1>4. j.writes => ~Q!Pinned(a)
  BY DEF QueueInv, Held, Q!Pinned, Q!Writing
<1>5. allocations' = IF j.writes THEN [allocations EXCEPT ![a].writer = i]
                     ELSE allocations
  BY <1>4 DEF Q!Complete
<1> HIDE DEF a, i
<1>6. [allocations[a] EXCEPT !.writer = i] \in Plane
      /\ [allocations[a] EXCEPT !.writer = i].known
      /\ [allocations[a] EXCEPT !.writer = i].writer = i
  <2>1. allocations[a] \in
           [known : {TRUE}, generation : Generation, length : Length,
            policy : Policy, writer : Q!Identity \cup {None}]
    BY ZenonT(60), <1>1, KnownPlane
  <2>2. [allocations[a] EXCEPT !.writer = i] \in
           [known : {TRUE}, generation : Generation, length : Length,
            policy : Policy, writer : Q!Identity \cup {None}]
    BY ZenonT(60), <1>2, <2>1
  <2> QED  BY ZenonT(60), <2>1, <2>2 DEF Plane
<1>7. /\ allocations' \in [Allocation -> Plane]
      /\ \A b \in Allocation : b # a \/ ~j.writes => allocations'[b] = allocations[b]
      /\ j.writes => allocations'[a].known /\ allocations'[a].writer = i
  BY SMTT(60), <1>1, <1>5, <1>6 DEF QueueInv, QueueTyped
<1>8. QueueTyped'
  BY <1>1, <1>3, <1>7 DEF QueueInv, QueueTyped, Job, Bytes
<1>9. Placed'
  BY <1>3, <1>7 DEF QueueInv, QueueTyped, Placed, Job
<1>10. \A b \in Allocation : b # a \/ ~j.writes => (Q!Writing(b)' <=> Q!Writing(b))
  BY <1>3 DEF Q!Writing, a
<1>11. Settled'
  <2> SUFFICES ASSUME NEW b \in Allocation, allocations'[b].known,
                      allocations'[b].writer # None, ~Q!Writing(b)'
               PROVE  data'[b] = allocations'[b].writer.writer_job
    BY SMTT(60) DEF Settled
  <2>1. CASE b = a /\ j.writes
    BY SMTT(60), <1>1, <1>2, <1>3, <1>7, <2>1 DEF QueueInv, QueueTyped
  <2>2. CASE b # a \/ ~j.writes
    BY SMTT(60), <1>3, <1>7, <1>10, <2>2 DEF QueueInv, QueueTyped, Settled
  <2> QED  BY <2>1, <2>2
<1>12. Held'
  <2> SUFFICES ASSUME NEW o \in Observer, pins[o] # None
               PROVE  /\ allocations'[pins[o].allocation].known
                      /\ allocations'[pins[o].allocation].writer = pins[o]
                      /\ ~Q!Writing(pins[o].allocation)'
    BY SMTT(60), <1>3 DEF Held, Q!Writing
  <2>1. pins[o].allocation \in Allocation
    BY DEF QueueInv, QueueTyped, Q!Identity
  <2>2. pins[o].allocation # a \/ ~j.writes
    BY <1>4 DEF Q!Pinned
  <2>3. ~Q!Writing(pins[o].allocation)
    BY DEF QueueInv, Held
  <2>4. ~Q!Writing(pins[o].allocation)'
    BY SMTT(60), <1>3, <2>3 DEF Q!Writing
  <2> QED  BY SMTT(60), <1>7, <2>1, <2>2, <2>4 DEF QueueInv, Held
<1>13. Quiet'
  BY <1>3 DEF QueueInv, Quiet, Pausing, Drained, Q!At
<1> QED  BY SMTT(60), <1>3, <1>8, <1>9, <1>11, <1>12, <1>13, ObserverSame DEF QueueInv

LEMMA StopQueueInv ==
    ASSUME QueueInv, Q!StopQueue
    PROVE  QueueInv'
<1>1. /\ closed' = TRUE /\ paused' = FALSE
      /\ UNCHANGED <<allocations, inflight, next_job, pins, data, observer>>
  BY DEF Q!StopQueue
<1>2. QueueTyped'
  BY ZenonT(60), <1>1 DEF QueueInv, QueueTyped
<1>3. Quiet'
  BY <1>1 DEF QueueInv, Quiet, Pausing, Drained, Q!At
<1> QED  BY <1>1, <1>2, <1>3, ObserverSame, PlanesSame DEF QueueInv

-----------------------------------------------------------------------------
(* The calls of snapshot() between pin() and unpin() that copy nothing. *)
Follows(pc, next) ==
    \/ pc = "pause" /\ next = "drain"
    \/ pc = "drain" /\ next = "validate"
    \/ pc = "validate" /\ next = "compressed"
    \/ pc = "clock" /\ next = "revalidate"
    \/ pc = "revalidate" /\ next = "resume"
    \/ pc = "resume" /\ next = "unpin"

LEMMA GoesOnLocal ==
    ASSUME QueueInv, NEW o \in Observer, NEW ok, NEW pc \in PC, Q!GoesOn(o, ok, pc),
           Follows(observer[o].pc, pc), UNCHANGED pins
    PROVE  /\ observer' \in [Observer -> Snapshot]
           /\ \A p \in Observer :
                 observer'[p].pc \notin {"idle", "stop", "failed"}
                     => observer'[p].identity \in Q!Identity
           /\ HasPin' /\ Copied' /\ Shown'
<1>1. observer[o].pc \notin {"idle", "stop", "failed"}
  BY DEF Follows
<1>2. /\ observer' \in [Observer -> Snapshot]
      /\ \A p \in Observer : p # o => observer'[p] = observer[p]
      /\ observer'[o].snapshots = observer[o].snapshots
      /\ ok => /\ observer'[o].pc = pc
               /\ observer'[o].identity = observer[o].identity
               /\ observer'[o].copy = observer[o].copy
               /\ observer'[o].slot = observer[o].slot
      /\ ~ok => observer'[o].pc = "stop" /\ observer'[o].copy = FALSE
  BY ZenonT(60), <1>1, GoesOnMoves DEF QueueInv
<1>3. \A p \in Observer : observer'[p].pc \notin {"idle", "stop", "failed"}
                              => observer'[p].identity \in Q!Identity
  BY <1>1, <1>2 DEF QueueInv, QueueTyped
<1>4. HasPin'
  BY SMTT(60), <1>2 DEF QueueInv, HasPin, Follows
<1>5. Copied'
  BY ZenonT(60), <1>2 DEF QueueInv, Copied, Follows
<1>6. Shown'
  BY <1>2 DEF QueueInv, Shown, TrueShot
<1> QED  BY <1>2, <1>3, <1>4, <1>5, <1>6

(* Within the pause, a call that goes on has found the queue drained. *)
LEMMA GoesOnQuiet ==
    ASSUME QueueInv, NEW o \in Observer, NEW ok, NEW pc \in PC, Q!GoesOn(o, ok, pc),
           Follows(observer[o].pc, pc), observer[o].pc \notin {"pause", "resume"},
           ok => inflight = {}, UNCHANGED <<Q!queue, pins, data>>
    PROVE  QueueInv'
<1>1. observer[o].pc \notin {"idle", "stop", "failed"}
  BY DEF Follows
<1>2. /\ \A p \in Observer : p # o => observer'[p] = observer[p]
      /\ ok => observer'[o].pc = pc
      /\ ~ok => observer'[o].pc = "stop"
  BY ZenonT(60), <1>1, GoesOnMoves DEF QueueInv
<1>3. UNCHANGED <<paused, closed, allocations, inflight, next_job, pins, data>>
  BY DEF Q!queue
<1>4. QueueTyped' /\ HasPin' /\ Copied' /\ Shown'
  BY <1>3, GoesOnLocal DEF QueueInv, QueueTyped
<1>5. \A p \in Observer : /\ Pausing(p)' => Pausing(p)
                          /\ Drained(p)' => inflight = {}
  <2>1. \A p \in Observer : p # o => observer'[p] = observer[p]
    BY <1>2
  <2>2. Pausing(o)
    BY DEF Pausing, Drained, Q!At, Follows
  <2>3. Drained(o)' => inflight = {}
    <3>1. CASE ok
      BY <3>1
    <3>2. CASE ~ok
      BY <1>2, <3>2 DEF Drained
    <3> QED  BY <3>1, <3>2
  <2>4. \A p \in Observer : Drained(p) => inflight = {}
    BY DEF QueueInv, Quiet
  <2>5. ASSUME NEW p \in Observer
        PROVE  (Pausing(p)' => Pausing(p)) /\ (Drained(p)' => inflight = {})
    <3>1. CASE p = o
      BY <2>2, <2>3, <3>1, Zenon
    <3>2. CASE p # o
      BY ZenonT(60), <2>1, <2>4, <3>2 DEF Pausing, Drained, Q!At
    <3> QED  BY <3>1, <3>2, Zenon
  <2> QED  BY <2>5, Zenon
<1>6. Quiet'
  BY ZenonT(60), <1>3, <1>5 DEF QueueInv, Quiet
<1> QED  BY <1>3, <1>4, <1>6, PlanesSame DEF QueueInv

LEMMA BeginInv ==
    ASSUME QueueInv, NEW o \in Observer, Q!Begin(o)
    PROVE  QueueInv'
<1>1. /\ UNCHANGED <<paused, closed, allocations, inflight, next_job, pins, data>>
      /\ observer[o].pc = "idle"
  BY ZenonT(60) DEF Q!Begin, Q!queue, Q!At
<1>2. observer[o] \in Snapshot /\ observer \in [Observer -> Snapshot]
  BY DEF QueueInv, QueueTyped
<1>3. /\ observer' \in [Observer -> Snapshot]
      /\ \A p \in Observer : p # o => observer'[p] = observer[p]
      /\ observer'[o].pc \in {"idle", "pin"}
      /\ observer'[o].pc = "pin" => observer'[o].identity \in Q!Identity
      /\ observer'[o].snapshots = observer[o].snapshots
  <2>1. CASE Len(observer[o].snapshots) >= MaxSnapshots
    <3>1. observer' = [observer EXCEPT ![o].stopped = TRUE]
      BY ZenonT(60), <2>1 DEF Q!Begin
    <3> QED  BY ZenonT(60), <1>1, <1>2, <3>1 DEF Snapshot
  <2>2. CASE ~(Len(observer[o].snapshots) >= MaxSnapshots)
    <3>1. PICK r \in Run, a \in Allocation, g \in Generation,
               j \in 1..(next_job - 1), l \in Length, copy \in BOOLEAN :
             observer' = [observer EXCEPT
                 ![o].pc = "pin", ![o].length = l, ![o].copy = copy,
                 ![o].identity = [run |-> r, allocation |-> a,
                                  generation |-> g, writer_job |-> j]]
      BY <2>2, Zenon DEF Q!Begin
    <3> DEFINE i == [run |-> r, allocation |-> a, generation |-> g, writer_job |-> j]
    <3>2. i \in Q!Identity
      BY DEF QueueInv, QueueTyped, Q!Identity
    <3> HIDE DEF i
    <3>3. observer' = [observer EXCEPT
             ![o] = [observer[o] EXCEPT !.pc = "pin", !.length = l, !.copy = copy,
                                        !.identity = i]]
      BY ZenonT(60), <1>2, <3>1 DEF i
    <3>4. "pin" \in PC
      BY DEF PC
    <3> QED  BY ZenonT(60), <1>2, <3>2, <3>3, <3>4 DEF Snapshot
  <2> QED  BY <2>1, <2>2
<1>4. QueueTyped'
  BY ZenonT(60), <1>1, <1>3 DEF QueueInv, QueueTyped
<1>5. HasPin' /\ Copied' /\ Shown'
  <2>1. HasPin' /\ Copied'
    BY ZenonT(60), <1>1, <1>3 DEF QueueInv, HasPin, Copied
  <2>2. \A p \in Observer : observer'[p].snapshots = observer[p].snapshots
    BY Zenon, <1>3
  <2> QED  BY Zenon, <2>1, <2>2, ShownSame
<1>6. Quiet'
  BY <1>1, <1>3 DEF QueueInv, Quiet, Pausing, Drained, Q!At
<1> QED  BY SMTT(60), <1>1, <1>4, <1>5, <1>6, PlanesSame DEF QueueInv

LEMMA PinInv ==
    ASSUME QueueInv, NEW o \in Observer, Q!Pin(o)
    PROVE  QueueInv'
<1> DEFINE i == observer[o].identity
           ok == Q!CanPin(i, observer[o].length)
<1>1. /\ observer[o].pc = "pin"
      /\ Q!GoesOn(o, ok, "pause")
      /\ pins' = IF ok THEN [pins EXCEPT ![o] = i] ELSE pins
      /\ UNCHANGED <<paused, closed, allocations, inflight, next_job, data>>
  BY DEF Q!Pin, Q!At, Q!queue
<1>2. i \in Q!Identity
  BY SMTT(60), <1>1 DEF QueueInv, QueueTyped
<1>3. ok => /\ allocations[i.allocation].known
            /\ allocations[i.allocation].writer = i
            /\ ~Q!Writing(i.allocation)
  BY DEF Q!CanPin
<1>4. /\ observer' \in [Observer -> Snapshot]
      /\ \A p \in Observer : p # o => observer'[p] = observer[p]
      /\ observer'[o].snapshots = observer[o].snapshots
      /\ ok => observer'[o].pc = "pause" /\ observer'[o].identity = i
      /\ ~ok => observer'[o].pc = "stop"
  BY ZenonT(60), <1>1, GoesOnMoves DEF QueueInv, PC
<1> HIDE DEF i, ok
<1>5. /\ pins' \in [Observer -> Q!Identity \cup {None}]
      /\ \A p \in Observer : p # o => pins'[p] = pins[p]
      /\ pins'[o] = IF ok THEN i ELSE pins[o]
  BY <1>1, <1>2 DEF QueueInv, QueueTyped
<1>6. QueueTyped'
  BY SMTT(60), <1>1, <1>2, <1>4, <1>5 DEF QueueInv, QueueTyped
<1>7. Placed' /\ Settled'
  BY SMTT(60), <1>1 DEF QueueInv, Placed, Settled, Q!Writing
<1>8. Held'
  <2> SUFFICES ASSUME NEW p \in Observer, pins'[p] # None
               PROVE  /\ allocations[pins'[p].allocation].known
                      /\ allocations[pins'[p].allocation].writer = pins'[p]
                      /\ \A j \in inflight : ~(j.allocation = pins'[p].allocation /\ j.writes)
    BY <1>1 DEF Held, Q!Writing
  <2>1. CASE p = o /\ ok
    BY <1>3, <1>5, <2>1 DEF Q!Writing
  <2>2. CASE p # o \/ ~ok
    BY <1>5, <2>2 DEF QueueInv, Held, Q!Writing
  <2> QED  BY ZenonT(60), <2>1, <2>2
<1>9. observer'[o].pc \in {"pause", "stop"}
      /\ (observer'[o].pc = "pause" => pins'[o] = observer'[o].identity)
  BY SMTT(60), <1>4, <1>5
<1>10. HasPin'
  BY ZenonT(60), <1>4, <1>5, <1>9 DEF QueueInv, HasPin
<1>11. Copied' /\ Shown'
  <2>1. Copied'
    BY ZenonT(60), <1>4, <1>9 DEF QueueInv, Copied
  <2>2. \A p \in Observer : observer'[p].snapshots = observer[p].snapshots
    BY Zenon, <1>4
  <2> QED  BY Zenon, <2>1, <2>2, ShownSame
<1>12. Quiet'
  BY ZenonT(60), <1>1, <1>4, <1>9 DEF QueueInv, Quiet, Pausing, Drained, Q!At
<1> QED  BY ZenonT(60), <1>6, <1>7, <1>8, <1>10, <1>11, <1>12 DEF QueueInv

LEMMA PauseInv ==
    ASSUME QueueInv, NEW o \in Observer, Q!Pause(o)
    PROVE  QueueInv'
<1> DEFINE ok == ~closed /\ ~paused
<1>1. /\ observer[o].pc = "pause"
      /\ Q!GoesOn(o, ok, "drain")
      /\ paused' = IF ok THEN TRUE ELSE paused
      /\ UNCHANGED <<closed, allocations, inflight, next_job, pins, data>>
  BY ZenonT(60) DEF Q!Pause, Q!At
<1>2. Follows(observer[o].pc, "drain") /\ "drain" \in PC
  BY SMTT(60), <1>1 DEF Follows, PC
<1>3. QueueTyped' /\ HasPin' /\ Copied' /\ Shown'
  BY ZenonT(60), <1>1, <1>2, GoesOnLocal DEF QueueInv, QueueTyped
<1>4. /\ \A p \in Observer : p # o => observer'[p] = observer[p]
      /\ ok => observer'[o].pc = "drain"
      /\ ~ok => observer'[o].pc = "stop"
  BY ZenonT(60), <1>1, <1>2, GoesOnMoves DEF QueueInv
<1>5. Quiet'
  <2>1. CASE ok
    <3>1. \A p \in Observer : ~Pausing(p) /\ ~Drained(p)
      BY <2>1 DEF QueueInv, Quiet, Pausing
    <3>2. \A p \in Observer : Pausing(p)' => p = o
      BY <1>4, <3>1 DEF Pausing, Drained, Q!At
    <3>3. \A p \in Observer : ~Drained(p)'
      BY ZenonT(60), <1>4, <2>1, <3>1 DEF Drained
    <3> QED  BY <1>1, <2>1, <3>2, <3>3 DEF Quiet
  <2>2. CASE ~ok
    BY SMTT(60), <1>1, <1>4, <2>2 DEF QueueInv, Quiet, Pausing, Drained, Q!At
  <2> QED  BY SMTT(60), <2>1, <2>2
<1> QED  BY ZenonT(60), <1>1, <1>3, <1>5, PlanesSame DEF QueueInv

LEMMA DrainInv ==
    ASSUME QueueInv, NEW o \in Observer, Q!Drain(o)
    PROVE  QueueInv'
<1> DEFINE ok == ~closed /\ paused /\ inflight = {}
<1>1. /\ observer[o].pc = "drain" /\ Q!GoesOn(o, ok, "validate")
      /\ UNCHANGED <<Q!queue, pins, data>>
  BY DEF Q!Drain, Q!At
<1>2. Follows(observer[o].pc, "validate") /\ "validate" \in PC
  BY <1>1 DEF Follows, PC
<1> QED  BY ZenonT(60), <1>1, <1>2, GoesOnQuiet

LEMMA ValidateInv ==
    ASSUME QueueInv, NEW o \in Observer, Q!Validate(o)
    PROVE  QueueInv'
<1>1. Q!Valid(o) => inflight = {}
  BY SMTT(60) DEF Q!Valid
<1>2. CASE observer[o].pc = "validate" /\ Q!GoesOn(o, Q!Valid(o), "compressed")
  <2>1. Follows(observer[o].pc, "compressed") /\ "compressed" \in PC
    BY SMTT(60), <1>2 DEF Follows, PC
  <2> QED  BY <1>1, <1>2, <2>1, GoesOnQuiet DEF Q!Validate
<1>3. CASE observer[o].pc = "revalidate" /\ Q!GoesOn(o, Q!Valid(o), "resume")
  <2>1. Follows(observer[o].pc, "resume") /\ "resume" \in PC
    BY <1>3 DEF Follows, PC
  <2> QED  BY SMTT(60), <1>1, <1>3, <2>1, GoesOnQuiet DEF Q!Validate
<1> QED  BY <1>2, <1>3 DEF Q!Validate, Q!At

LEMMA CopyDeadlineInv ==
    ASSUME QueueInv, NEW o \in Observer, Q!CopyDeadline(o)
    PROVE  QueueInv'
<1>1. PICK inTime \in BOOLEAN : Q!GoesOn(o, inTime, "revalidate")
  BY DEF Q!CopyDeadline
<1>2. observer[o].pc = "clock" /\ UNCHANGED <<Q!queue, pins, data>>
  BY DEF Q!CopyDeadline, Q!At
<1>3. Follows(observer[o].pc, "revalidate") /\ "revalidate" \in PC
  BY <1>2 DEF Follows, PC
<1>4. inflight = {}
  BY SMTT(60), <1>2 DEF QueueInv, Quiet, Drained
<1> QED  BY <1>1, <1>2, <1>3, <1>4, GoesOnQuiet

LEMMA ResumeInv ==
    ASSUME QueueInv, NEW o \in Observer, Q!Resume(o)
    PROVE  QueueInv'
<1>1. /\ observer[o].pc = "resume"
      /\ Q!GoesOn(o, ~closed, "unpin")
      /\ paused' = IF closed THEN paused ELSE FALSE
      /\ UNCHANGED <<closed, allocations, inflight, next_job, pins, data>>
  BY SMTT(60) DEF Q!Resume, Q!At
<1>2. Follows(observer[o].pc, "unpin") /\ "unpin" \in PC
  BY SMTT(60), <1>1 DEF Follows, PC
<1>3. QueueTyped' /\ HasPin' /\ Copied' /\ Shown'
  BY ZenonT(60), <1>1, <1>2, GoesOnLocal DEF QueueInv, QueueTyped
<1>4. /\ \A p \in Observer : p # o => observer'[p] = observer[p]
      /\ observer'[o].pc \in {"unpin", "stop"}
  BY ZenonT(60), <1>1, <1>2, GoesOnMoves DEF QueueInv
<1>5. \A p \in Observer : /\ Pausing(p)' => Pausing(p) /\ p # o
                          /\ Drained(p)' => Drained(p)
  BY <1>4 DEF Pausing, Drained, Q!At
<1>6. Pausing(o)
  BY SMTT(60), <1>1 DEF Pausing, Drained
<1>7. Quiet'
  BY <1>1, <1>5, <1>6 DEF QueueInv, Quiet
<1> QED  BY <1>1, <1>3, <1>7, PlanesSame DEF QueueInv

(* The plane that is copied is the pinned one, and it is settled. *)
LEMMA CopyInv ==
    ASSUME Q!SnapshotAssumption, QueueInv, NEW o \in Observer, Q!Copy(o)
    PROVE  QueueInv'
<1> DEFINE i == observer[o].identity
           held == data[i.allocation]
           copy == observer[o].copy
<1>1. /\ UNCHANGED <<paused, closed, allocations, inflight, next_job, pins, data>>
      /\ observer[o].pc \in {"compressed", "motion"}
  BY ZenonT(60) DEF Q!Copy, Q!queue, Q!At
<1>2. observer[o] \in Snapshot /\ observer \in [Observer -> Snapshot]
      /\ i \in Q!Identity /\ i.allocation \in Allocation /\ held \in Bytes
  BY SMTT(60), <1>1 DEF QueueInv, QueueTyped, Q!Identity
<1>3. held = i.writer_job
  <2>1. pins[o] = i /\ i # None
    BY ZenonT(60), <1>1, <1>2 DEF Q!SnapshotAssumption, QueueInv, HasPin
  <2>2. /\ allocations[i.allocation].known
        /\ allocations[i.allocation].writer = i
        /\ ~Q!Writing(i.allocation)
    BY ZenonT(60), <2>1 DEF QueueInv, Held, Q!Writing
  <2> QED  BY SMTT(60), <1>2, <2>1, <2>2 DEF QueueInv, Settled
<1>4. /\ observer' \in [Observer -> Snapshot]
      /\ \A p \in Observer : p # o => observer'[p] = observer[p]
      /\ observer'[o].identity = i /\ observer'[o].copy = copy
      /\ observer'[o].snapshots = observer[o].snapshots
      /\ \/ /\ observer[o].pc = "compressed" /\ observer'[o].pc = "motion"
            /\ copy => observer'[o].slot.compressed = held
         \/ /\ observer[o].pc = "motion" /\ observer'[o].pc = "clock"
            /\ copy => /\ observer'[o].slot.motion = held
                       /\ observer'[o].slot.compressed = observer[o].slot.compressed
  <2> HIDE DEF i, held
  <2>1. observer[o].slot \in Slot
    BY ZenonT(60), <1>2 DEF Snapshot
  <2>2. "motion" \in PC /\ "clock" \in PC
    BY ZenonT(60) DEF PC
  <2>3. CASE observer[o].pc = "compressed"
    <3> DEFINE t == [observer[o].slot EXCEPT !.compressed = IF copy THEN held ELSE @]
    <3>1. t \in Slot /\ (copy => t.compressed = held)
      BY <1>2, <2>1 DEF Slot
    <3>2. observer' = [observer EXCEPT ![o].slot.compressed = IF copy THEN held ELSE @,
                                       ![o].pc = "motion"]
      BY <2>3 DEF Q!Copy, Q!At, held, i
    <3>3. observer' = [observer EXCEPT
                         ![o] = [observer[o] EXCEPT !.slot = t, !.pc = "motion"]]
      BY ZenonT(60), <1>2, <3>2
    <3> HIDE DEF t
    <3> QED  BY ZenonT(60), <1>2, <2>2, <2>3, <3>1, <3>3 DEF Snapshot, i
  <2>4. CASE observer[o].pc = "motion"
    <3> DEFINE t == [observer[o].slot EXCEPT !.motion = IF copy THEN held ELSE @]
    <3>1. t \in Slot /\ (copy => t.motion = held)
          /\ t.compressed = observer[o].slot.compressed
      BY <1>2, <2>1 DEF Slot
    <3>2. observer' = [observer EXCEPT ![o].slot.motion = IF copy THEN held ELSE @,
                                       ![o].pc = "clock"]
      BY <2>4 DEF Q!Copy, Q!At, held, i
    <3>3. observer' = [observer EXCEPT
                         ![o] = [observer[o] EXCEPT !.slot = t, !.pc = "clock"]]
      BY ZenonT(60), <1>2, <3>2
    <3> HIDE DEF t
    <3> QED  BY ZenonT(60), <1>2, <2>2, <2>4, <3>1, <3>3 DEF Snapshot, i
  <2> QED  BY SMTT(60), <1>1, <2>3, <2>4
<1> HIDE DEF i, held, copy
<1>5. QueueTyped'
  BY ZenonT(60), <1>1, <1>2, <1>4 DEF QueueInv, QueueTyped
<1>6. HasPin' /\ Shown'
  <2>1. HasPin'
    BY ZenonT(60), <1>1, <1>4 DEF QueueInv, HasPin, i
  <2>2. Shown'
    BY ZenonT(60), <1>4, ShownSame
  <2> QED  BY ZenonT(60), <2>1, <2>2
<1>7. Copied'
  BY ZenonT(60), <1>3, <1>4 DEF QueueInv, Copied, i, copy
<1>8. Quiet'
  BY <1>1, <1>4 DEF QueueInv, Quiet, Pausing, Drained, Q!At
<1> QED  BY SMTT(60), <1>1, <1>5, <1>6, <1>7, <1>8, PlanesSame DEF QueueInv

LEMMA StopInv ==
    ASSUME QueueInv, NEW o \in Observer, Q!Stop(o)
    PROVE  QueueInv'
<1>1. /\ closed' = TRUE /\ paused' = FALSE
      /\ UNCHANGED <<allocations, inflight, next_job, pins, data>>
      /\ observer' = [observer EXCEPT ![o].pc = "failed", ![o].stopped = TRUE]
  BY DEF Q!Stop
<1>2. /\ observer' \in [Observer -> Snapshot]
      /\ \A p \in Observer : p # o => observer'[p] = observer[p]
      /\ observer'[o].pc = "failed"
      /\ observer'[o].snapshots = observer[o].snapshots
  <2>1. observer[o] \in Snapshot /\ observer \in [Observer -> Snapshot] /\ "failed" \in PC
    BY DEF QueueInv, QueueTyped, PC
  <2>2. observer' = [observer EXCEPT
                       ![o] = [observer[o] EXCEPT !.pc = "failed", !.stopped = TRUE]]
    BY ZenonT(60), <1>1, <2>1
  <2> QED  BY ZenonT(60), <2>1, <2>2 DEF Snapshot
<1>3. QueueTyped'
  BY ZenonT(60), <1>1, <1>2 DEF QueueInv, QueueTyped
<1>4. HasPin' /\ Copied' /\ Shown'
  <2>1. HasPin' /\ Copied'
    BY <1>1, <1>2 DEF QueueInv, HasPin, Copied
  <2>2. Shown'
    BY <1>2, ShownSame
  <2> QED  BY <2>1, <2>2
<1>5. Quiet'
  BY <1>1, <1>2 DEF QueueInv, Quiet, Pausing, Drained, Q!At
<1> QED  BY <1>1, <1>3, <1>4, <1>5, PlanesSame DEF QueueInv

LEMMA UnpinInv ==
    ASSUME QueueInv, NEW o \in Observer, Q!Unpin(o)
    PROVE  QueueInv'
<1>1. /\ pins' = [pins EXCEPT ![o] = None]
      /\ UNCHANGED <<paused, closed, allocations, inflight, next_job, data>>
      /\ observer[o].pc \in {"unpin", "failed"}
      /\ observer' = [observer EXCEPT
            ![o] = IF observer[o].pc = "unpin"
                   THEN [observer[o] EXCEPT !.pc = "publish"] ELSE Q!Over(o, "idle")]
  BY DEF Q!Unpin, Q!queue, Q!At
<1>2. observer[o] \in Snapshot /\ observer \in [Observer -> Snapshot] /\ "publish" \in PC
  BY DEF QueueInv, QueueTyped, PC
<1>3. [observer[o] EXCEPT !.pc = "publish"] \in Snapshot
  BY ZenonT(60), <1>2 DEF Snapshot
<1>4. /\ Q!Over(o, "idle") \in Snapshot
      /\ Q!Over(o, "idle").pc = "idle"
      /\ Q!Over(o, "idle").copy = FALSE
      /\ Q!Over(o, "idle").snapshots = observer[o].snapshots
  BY ZenonT(60), OverTyped DEF QueueInv
<1>5. /\ observer' \in [Observer -> Snapshot]
      /\ \A p \in Observer : p # o => observer'[p] = observer[p]
      /\ observer'[o].snapshots = observer[o].snapshots
      /\ \/ observer'[o].pc = "idle" /\ observer'[o].copy = FALSE
         \/ /\ observer[o].pc = "unpin" /\ observer'[o].pc = "publish"
            /\ observer'[o].identity = observer[o].identity
            /\ observer'[o].copy = observer[o].copy
            /\ observer'[o].slot = observer[o].slot
  <2>1. CASE observer[o].pc = "unpin"
    <3>1. observer' = [observer EXCEPT ![o] = [observer[o] EXCEPT !.pc = "publish"]]
      BY <1>1, <2>1
    <3> QED  BY <1>2, <1>3, <2>1, <3>1 DEF Snapshot
  <2>2. CASE observer[o].pc # "unpin"
    <3>1. observer' = [observer EXCEPT ![o] = Q!Over(o, "idle")]
      BY <1>1, <2>2
    <3> QED  BY <1>2, <1>4, <3>1
  <2> QED  BY ZenonT(60), <2>1, <2>2
<1>6. /\ pins' \in [Observer -> Q!Identity \cup {None}]
      /\ \A p \in Observer : p # o => pins'[p] = pins[p]
      /\ pins'[o] = None
  BY <1>1 DEF QueueInv, QueueTyped
<1>7. QueueTyped'
  BY <1>1, <1>5, <1>6 DEF QueueInv, QueueTyped
<1>8. Placed' /\ Settled'
  BY <1>1 DEF QueueInv, Placed, Settled, Q!Writing
<1>9. Held'
  BY <1>1, <1>6 DEF QueueInv, Held, Q!Writing
<1>10. HasPin' /\ Shown'
  <2>1. HasPin'
    BY SMTT(60), <1>5, <1>6 DEF QueueInv, HasPin
  <2>2. Shown'
    BY SMTT(60), <1>5, ShownSame
  <2> QED  BY SMTT(60), <2>1, <2>2
<1>11. Copied'
  BY <1>5 DEF QueueInv, Copied
<1>12. Quiet'
  BY <1>1, <1>5 DEF QueueInv, Quiet, Pausing, Drained, Q!At
<1> QED  BY <1>7, <1>8, <1>9, <1>10, <1>11, <1>12 DEF QueueInv

LEMMA PublishInv ==
    ASSUME QueueInv, NEW o \in Observer, Q!Publish(o)
    PROVE  QueueInv'
<1> DEFINE shot == [identity |-> observer[o].identity, copy |-> observer[o].copy,
                    bytes |-> observer[o].slot]
           shots == observer[o].snapshots
           over == Q!Over(o, "idle")
<1>1. /\ UNCHANGED <<paused, closed, allocations, inflight, next_job, pins, data>>
      /\ observer[o].pc = "publish"
      /\ observer' = [observer EXCEPT
                        ![o] = [over EXCEPT !.snapshots = Append(@, shot)]]
  BY DEF Q!Publish, Q!queue, Q!At
<1>2. observer[o] \in Snapshot /\ observer \in [Observer -> Snapshot]
      /\ observer[o].identity \in Q!Identity
  BY SMTT(60), <1>1 DEF QueueInv, QueueTyped
<1>3. over \in Snapshot /\ over.pc = "idle" /\ over.copy = FALSE /\ over.snapshots = shots
  BY ZenonT(60), OverTyped DEF QueueInv
<1>4. shot \in Shot /\ shots \in Seq(Shot)
  BY ZenonT(60), <1>2 DEF Snapshot, Shot
<1>5. TrueShot(shot)
  <2>1. observer[o].slot \in Slot
    BY <1>2 DEF Snapshot
  <2>2. observer[o].copy => /\ observer[o].slot.compressed = observer[o].identity.writer_job
                            /\ observer[o].slot.motion = observer[o].identity.writer_job
    BY SMTT(60), <1>1 DEF QueueInv, Copied
  <2>3. observer[o].copy => observer[o].slot =
           [compressed |-> observer[o].identity.writer_job,
            motion |-> observer[o].identity.writer_job]
    BY <2>1, <2>2 DEF Slot
  <2> QED  BY SMTT(60), <2>3 DEF TrueShot
<1> HIDE DEF shot, shots, over
<1>6. Append(shots, shot) \in Seq(Shot)
  BY <1>4
<1>7. /\ observer' \in [Observer -> Snapshot]
      /\ \A p \in Observer : p # o => observer'[p] = observer[p]
      /\ observer'[o].pc = "idle" /\ observer'[o].copy = FALSE
      /\ observer'[o].snapshots = Append(shots, shot)
  BY ZenonT(60), <1>1, <1>2, <1>3, <1>6 DEF Snapshot
<1>8. \A n \in DOMAIN Append(shots, shot) : TrueShot(Append(shots, shot)[n])
  <2>1. \A n \in DOMAIN shots : TrueShot(shots[n])
    BY DEF QueueInv, Shown, shots
  <2>2. \A n \in DOMAIN Append(shots, shot) :
           \/ n \in DOMAIN shots /\ Append(shots, shot)[n] = shots[n]
           \/ Append(shots, shot)[n] = shot
    BY <1>4
  <2> QED  BY <1>5, <2>1, <2>2, Zenon
<1>9. QueueTyped'
  BY <1>1, <1>7 DEF QueueInv, QueueTyped
<1>10. Shown'
  <2> SUFFICES ASSUME NEW p \in Observer, NEW n \in DOMAIN observer'[p].snapshots
               PROVE  TrueShot(observer'[p].snapshots[n])
    BY DEF Shown, TrueShot
  <2>1. CASE p = o
    BY SMTT(60), <1>7, <1>8, <2>1
  <2>2. CASE p # o
    BY SMTT(60), <1>7, <2>2 DEF QueueInv, Shown
  <2> QED  BY ZenonT(60), <2>1, <2>2
<1>11. HasPin' /\ Copied'
  BY SMTT(60), <1>1, <1>7 DEF QueueInv, HasPin, Copied
<1>12. Quiet'
  BY ZenonT(60), <1>1, <1>7 DEF QueueInv, Quiet, Pausing, Drained, Q!At
<1> QED  BY <1>1, <1>9, <1>10, <1>11, <1>12, PlanesSame DEF QueueInv

-----------------------------------------------------------------------------
LEMMA QueueInvNext ==
    ASSUME Q!SnapshotAssumption, QueueInv, [Q!Next]_(Q!vars)
    PROVE  QueueInv'
<1>1. ASSUME NEW a \in Allocation,
             \/ Q!Allocate(a)
             \/ Q!Release(a)
             \/ \E writes \in BOOLEAN : Q!Submit(a, writes)
      PROVE  QueueInv'
  BY <1>1, AllocateInv, ReleaseInv, SubmitInv
<1>2. ASSUME NEW j \in inflight, Q!Write(j) \/ Q!Complete(j)
      PROVE  QueueInv'
  BY ZenonT(60), <1>2, WriteInv, CompleteInv
<1>3. ASSUME NEW o \in Observer, Q!Begin(o) \/ Q!Step(o)
      PROVE  QueueInv'
  BY SMTT(60), <1>3, BeginInv, PinInv, PauseInv, DrainInv, ValidateInv, CopyInv,
     CopyDeadlineInv, ResumeInv, StopInv, UnpinInv, PublishInv DEF Q!Step
<1>4. CASE UNCHANGED Q!vars
  <2>1. UNCHANGED <<paused, closed, allocations, inflight, next_job, pins, data, observer>>
    BY ZenonT(60), <1>4 DEF Q!vars, Q!queue
  <2>2. QueueTyped' /\ Quiet'
    BY <2>1 DEF QueueInv, QueueTyped, Quiet, Pausing, Drained, Q!At
  <2> QED  BY ZenonT(60), <2>1, <2>2, ObserverSame, PlanesSame DEF QueueInv
<1> QED  BY SMTT(60), <1>1, <1>2, <1>3, <1>4, StopQueueInv DEF Q!Next

(***************************************************************************)
(* Whatever is allocated, released, submitted, completed or stopped while  *)
(* snapshot() runs, a snapshot shows what the writer it names left, and    *)
(* the plane is read with nothing in flight.                               *)
(***************************************************************************)
THEOREM SnapshotsAreTrue ==
    ASSUME Q!SnapshotAssumption
    PROVE  Q!Spec => []Q!SnapshotTrue
<1>1. QueueInv => Q!SnapshotTrue
  BY DEF QueueInv, Quiet, Drained, Shown, TrueShot, Q!SnapshotTrue, Q!Copying, Q!At
<1>2. QueueInv /\ [Q!Next]_(Q!vars) => QueueInv'
  BY Zenon, QueueInvNext
<1> QED  BY <1>1, <1>2, QueueInvInit, PTL DEF Q!Spec
=============================================================================
