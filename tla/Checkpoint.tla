----------------------------- MODULE Checkpoint -----------------------------
(***************************************************************************)
(* Checkpoints and log reclamation: crates/kivi-checkpoint (builder.rs,    *)
(* publish.rs, load.rs, reclaim.rs) as crates/kivi-engine/src/checkpoint.rs*)
(* and engine.rs use it.                                                   *)
(*                                                                         *)
(* Artifacts are files named by a hash of their content, so a file is      *)
(* represented by its content:                                             *)
(*   band      [key, cut, body], the objects of one band at a cut;         *)
(*   comp      [tablet, cut, dedup], the dedup component;                  *)
(*   manifest  [cut, bands, comp, prev]; a manifest is named by its serial *)
(*             number, and prev is the set of at most one name.            *)
(* d [bands, comps, manifests, current] is the checkpoint directory: the   *)
(* band and comp directories are shared by all tablets, manifests[t] and   *)
(* current[t] belong to tablet t.  CURRENT is [cut, manifest, previous],   *)
(* absent or one.                                                          *)
(***************************************************************************)
EXTENDS LiveTablet

EmptyCheckpointDir ==
  [bands |-> {}, comps |-> {}, manifests |-> [t \in Tablets |-> <<>>],
   current |-> [t \in Tablets |-> {}]]

(* load_manifest finds the manifest named id. *)
ReadManifest(d, t, id) == {d.manifests[t][i] : i \in DOMAIN d.manifests[t] \cap {id}}

(* build_tablet: a clean band is the previous manifest's, any other is     *)
(* built from the snapshot; without a previous manifest every band is      *)
(* built.  previous is a set of at most one [id, manifest].                *)
BuildTablet(t, snap, previous) ==
  [cut   |-> snap.cut,
   bands |-> {IF k \in snap.dirty \/ previous = {}
              THEN [key |-> k, cut |-> snap.cut, body |-> snap.store[k]]
              ELSE CHOOSE b \in UNION {p.manifest.bands : p \in previous} : b.key = k
                : k \in KeysOf(t)},
   comp  |-> [tablet |-> t, cut |-> snap.cut, dedup |-> snap.dedup],
   prev  |-> {p.id : p \in previous}]

(* The bands a build takes over from the previous manifest: publish_tablet *)
(* fails when the file of one is missing.                                  *)
ReusedBands(snap, built, previous) ==
  IF previous = {} THEN {} ELSE {b \in built.bands : b.key \notin snap.dirty}

(* publish_tablet up to CURRENT: the artifact files of a build. *)
WithArtifacts(d, t, id, built) ==
  [d EXCEPT !.bands = @ \cup built.bands, !.comps = @ \cup {built.comp},
            !.manifests[t] = (id :> built) @@ @]

(* publish_tablet: the record that replaces CURRENT. *)
NewCurrent(id, built, installed) ==
  [cut |-> built.cut, manifest |-> id, previous |-> {c.manifest : c \in installed}]

(* sweep_unreferenced: files that neither manifest of this tablet's        *)
(* CURRENT names are deleted, from the directories that all tablets share. *)
(* An unreadable manifest keeps everything.                                *)
SweepUnreferenced(d, t, cur) ==
  LET chain == {cur.manifest} \cup cur.previous
      kept  == UNION {ReadManifest(d, t, id) : id \in chain}
  IN  IF \E id \in chain : ReadManifest(d, t, id) = {} THEN d
      ELSE [d EXCEPT !.bands = @ \cap UNION {m.bands : m \in kept},
                     !.comps = @ \cap {m.comp : m \in kept},
                     !.manifests[t] = [id \in DOMAIN @ \cap chain |-> @[id]]]

(* load_chain finds the manifest and every artifact that it names. *)
LoadChain(d, t, id) ==
  {m \in ReadManifest(d, t, id) : m.bands \subseteq d.bands /\ m.comp \in d.comps}

(* load_installed: the loaded checkpoints [current, manifest], none when   *)
(* neither chain of CURRENT loads.                                         *)
LoadInstalled(d, t) ==
  LET cur  == CHOOSE c \in d.current[t] : TRUE
      Prev == UNION {{[current  |-> [cut |-> m.cut, manifest |-> id, previous |-> m.prev],
                       manifest |-> m] : m \in LoadChain(d, t, id)} : id \in cur.previous}
  IN  IF LoadChain(d, t, cur.manifest) # {}
      THEN {[current |-> cur, manifest |-> m] : m \in LoadChain(d, t, cur.manifest)}
      ELSE {p \in Prev : p.manifest.cut <= cur.cut}

(* restore_checkpoints for one tablet: the restored tablets                *)
(* [live, installed], none when the engine must refuse to start.           *)
RestoreTablet(d, t) ==
  IF d.current[t] = {} THEN {[live |-> FreshTablet(t), installed |-> {}]}
  ELSE {[live |-> RestoreCheckpoint(t, x.manifest.cut,
                    [k \in KeysOf(t) |-> (CHOOSE b \in x.manifest.bands : b.key = k).body],
                    x.manifest.comp.dedup),
         installed |-> {x.current}] : x \in LoadInstalled(d, t)}

----------------------------------------------------------------------------
(* Log reclamation *)

(* previous_cut: the older recovery point of a tablet, none when it has no *)
(* previous checkpoint or its manifest cannot be read.                     *)
PreviousCut(d, t, installed) ==
  {m.cut : m \in UNION {UNION {ReadManifest(d, t, id) : id \in c.previous} : c \in installed}}

(* segment_covered: every record is at or below its tablet's floor, and a  *)
(* tablet without a floor covers nothing.                                  *)
SegmentCovered(summary, floors) ==
  \A r \in summary.recs : \E f \in floors[r.tablet] : r.commit <= f

(* plan_reclaim for one lane.  sealed maps the listed segments to their    *)
(* summaries, active is the lane's floor snapshot.  The oldest segments    *)
(* are obsolete up to the first one that is not covered.                   *)
PlanReclaim(sealed, active, floors) ==
  LET stops    == {n \in DOMAIN sealed : n = active.segment
                                         \/ ~SegmentCovered(sealed[n], floors)}
      stop     == Min(stops)
      FirstOf(n) == IF sealed[n].first = 0 THEN active.next ELSE sealed[n].first
  IN  IF stops = {}
      THEN [floor |-> [segment |-> Max({active.segment, 1}), batch |-> active.first,
                       next |-> active.next],
            obsolete |-> DOMAIN sealed]
      ELSE [floor |-> [segment |-> stop, batch |-> FirstOf(stop), next |-> active.next],
            obsolete |-> {n \in DOMAIN sealed : n < stop}]
=============================================================================
