---------------------------- MODULE ScoutingLibrary ----------------------------
(***************************************************************************)
(* What a coach makes of the videos: clips, annotations, playlists and     *)
(* links to share clips with (api/scouting.py, models/scouting.py).        *)
(*                                                                         *)
(* Every handler is one transaction that first looks up what it may touch; *)
(* if the row is gone at the commit a foreign key or a unique constraint   *)
(* undoes it.  Sharing has no constraint behind its lookup, so it is a     *)
(* read and a commit.                                                      *)
(***************************************************************************)
EXTENDS Integers, Sequences, SequencesExt

CONSTANTS
  Tab,            \* requests that may be sharing at once
  MaxClip,        \* bound: clips cut
  MaxPlaylist,    \* bound: playlists made
  MaxAnnotation,  \* bound: annotations drawn
  MaxShare        \* bound: links made

ASSUME ScoutingLibraryAssumption == MaxClip \in Nat

Video == 1..2     \* two registered videos

VARIABLES
  video,        \* the videos that are there
  clips,        \* video_clips, by id
  annotations,  \* video_annotations, by id; clip 0 is none
  playlists,    \* clip_playlists, by id: whether it is there
  items,        \* playlist_items: the sort_order of <<playlist, clip>>
  shares,       \* clip_shares, by id
  sharing       \* the share requests that found no link to reuse

scoutingLibraryVars ==
  <<video, clips, annotations, playlists, items, shares, sharing>>

NoShare == [video |-> 0, clips |-> <<>>, raced |-> FALSE]

ScoutingLibraryInit ==
  /\ video = Video
  /\ clips = <<>>
  /\ annotations = <<>>
  /\ playlists = <<>>
  /\ items = [x \in {} |-> 0]
  /\ shares = <<>>
  /\ sharing = [t \in Tab |-> NoShare]

\* _clip_owned_by, _playlist_owned_by
LiveClips == {c \in DOMAIN clips : clips[c].live}
LivePlaylists == {p \in DOMAIN playlists : playlists[p]}

-----------------------------------------------------------------------------
(* Deletions and what they cascade to *)

\* The items of the clips go with them.
DropClips(C) ==
  /\ clips' = [c \in DOMAIN clips |->
       IF c \in C THEN [clips[c] EXCEPT !.live = FALSE] ELSE clips[c]]
  /\ items' = Restrict(items, {x \in DOMAIN items : x[2] \notin C})

\* The annotations of deleted clips stay with the video.
Unclip(C) ==
  [a \in DOMAIN annotations |->
     IF annotations[a].clip \in C THEN [annotations[a] EXCEPT !.clip = 0]
                                  ELSE annotations[a]]

\* delete_clip
DeleteClip(c) ==
  /\ c \in LiveClips
  /\ DropClips({c})
  /\ annotations' = Unclip({c})
  /\ UNCHANGED <<video, playlists, shares, sharing>>

\* batch_delete_clips: all or nothing, so an id twice in the body is refused.
BatchDeleteClips(cs) ==
  /\ cs # <<>>
  /\ Cardinality(Range(cs) \cap LiveClips) = Len(cs)
  /\ DropClips(Range(cs))
  /\ annotations' = Unclip(Range(cs))
  /\ UNCHANGED <<video, playlists, shares, sharing>>

\* The row of a video goes (delete_video): its clips and annotations with it,
\* the links stay and answer 404.
DeleteLibraryVideo(v) ==
  LET cut == {c \in LiveClips : clips[c].video = v}
  IN /\ v \in video
     /\ video' = video \ {v}
     /\ DropClips(cut)
     /\ annotations' = [a \in DOMAIN annotations |->
          IF annotations[a].video = v
          THEN [annotations[a] EXCEPT !.live = FALSE, !.clip = 0]
          ELSE Unclip(cut)[a]]
     /\ UNCHANGED <<playlists, shares, sharing>>

-----------------------------------------------------------------------------
(* Clips and annotations *)

CreateClip(v) ==
  /\ v \in video
  /\ Len(clips) < MaxClip
  /\ clips' = Append(clips, [video |-> v, rated |-> FALSE, live |-> TRUE])
  /\ UNCHANGED <<video, annotations, playlists, items, shares, sharing>>

\* update_clip, batch_update_clips: the rating stands for what they change.
RateClips(cs) ==
  /\ cs # <<>>
  /\ Cardinality(Range(cs) \cap LiveClips) = Len(cs)
  /\ clips' = [c \in DOMAIN clips |->
       IF c \in Range(cs) THEN [clips[c] EXCEPT !.rated = TRUE] ELSE clips[c]]
  /\ UNCHANGED <<video, annotations, playlists, items, shares, sharing>>

\* create_annotation: the clip exists, but need not be one of the video.
CreateAnnotation(v, c) ==
  /\ v \in video
  /\ c \in LiveClips \cup {0}
  /\ Len(annotations) < MaxAnnotation
  /\ annotations' = Append(annotations, [video |-> v, clip |-> c, live |-> TRUE])
  /\ UNCHANGED <<video, clips, playlists, items, shares, sharing>>

DeleteAnnotation(a) ==
  /\ annotations[a].live
  /\ annotations' = [annotations EXCEPT ![a].live = FALSE, ![a].clip = 0]
  /\ UNCHANGED <<video, clips, playlists, items, shares, sharing>>

-----------------------------------------------------------------------------
(* Playlists *)

CreatePlaylist ==
  /\ Len(playlists) < MaxPlaylist
  /\ playlists' = Append(playlists, TRUE)
  /\ UNCHANGED <<video, clips, annotations, items, shares, sharing>>

DeletePlaylist(p) ==
  /\ p \in LivePlaylists
  /\ playlists' = [playlists EXCEPT ![p] = FALSE]
  /\ items' = Restrict(items, {x \in DOMAIN items : x[1] # p})
  /\ UNCHANGED <<video, clips, annotations, shares, sharing>>

\* add_playlist_item: adding again is silent.  Every item is added at the top.
AddPlaylistItem(p, c) ==
  /\ p \in LivePlaylists
  /\ c \in LiveClips
  /\ <<p, c>> \notin DOMAIN items
  /\ items' = [x \in DOMAIN items \cup {<<p, c>>} |->
       IF x = <<p, c>> THEN 0 ELSE items[x]]
  /\ UNCHANGED <<video, clips, annotations, playlists, shares, sharing>>

RemovePlaylistItem(p, c) ==
  /\ p \in LivePlaylists
  /\ <<p, c>> \in DOMAIN items
  /\ items' = Restrict(items, DOMAIN items \ {<<p, c>>})
  /\ UNCHANGED <<video, clips, annotations, playlists, shares, sharing>>

LastPlace(cs, c) ==
  CHOOSE i \in DOMAIN cs : cs[i] = c /\ \A j \in DOMAIN cs : cs[j] = c => j <= i

\* reorder_playlist: items that are not in the body keep their place, the last
\* mention of one counts.
ReorderPlaylist(p, cs) ==
  /\ p \in LivePlaylists
  /\ items' = [x \in DOMAIN items |->
       IF x[1] = p /\ x[2] \in Range(cs)
       THEN LastPlace(cs, x[2]) - 1
       ELSE items[x]]
  /\ UNCHANGED <<video, clips, annotations, playlists, shares, sharing>>

-----------------------------------------------------------------------------
(* Links *)

\* Fault: the clips are kept in the order of the request.
ShareKey_AsSent(cs) == cs

Arrangements(cs) == {[i \in DOMAIN cs |-> cs[p[i]]] : p \in Bijection(DOMAIN cs, DOMAIN cs)}
Ascends(k) == \A i, j \in DOMAIN k : i < j => k[i] <= k[j]

\* The column clip_ids: the ids, sorted; one that is sent twice stands there twice.
ShareKey(cs) == CHOOSE k \in Arrangements(cs) : Ascends(k)

\* The guards of share_clip, share_clips_multi and share_timeline: the video
\* and the clips are the coach's; the clips may be of another video.
MayShare(v, cs) == v \in video /\ cs # <<>> /\ Range(cs) \subseteq LiveClips

Links(v, cs) ==
  {s \in DOMAIN shares : shares[s].video = v /\ shares[s].clips = ShareKey(cs)}

InsertShare(v, cs, timeline, raced) ==
  /\ Len(shares) < MaxShare
  /\ shares' = Append(shares, [video |-> v, clips |-> ShareKey(cs),
                               timeline |-> timeline, raced |-> raced])

\* _create_or_reuse_share finds nothing.  (One link is returned, and more than
\* one makes scalar_one_or_none raise: neither changes anything.)
ShareRead(t, v, cs) ==
  LET others == {u \in Tab : sharing[u].video = v /\ ToBag(sharing[u].clips) = ToBag(cs)}
  IN /\ sharing[t] = NoShare
     /\ MayShare(v, cs)
     /\ Links(v, cs) = {}
     /\ sharing' = [u \in Tab |->
          IF u = t THEN [video |-> v, clips |-> cs, raced |-> others # {}]
          ELSE [sharing[u] EXCEPT !.raced = @ \/ u \in others]]
     /\ UNCHANGED <<video, clips, annotations, playlists, items, shares>>

\* The link needs neither the video nor the clips any more.
ShareCommit(t) ==
  /\ sharing[t] # NoShare
  /\ InsertShare(sharing[t].video, sharing[t].clips, FALSE, sharing[t].raced)
  /\ sharing' = [sharing EXCEPT ![t] = NoShare]
  /\ UNCHANGED <<video, clips, annotations, playlists, items>>

\* A timeline gets a link of its own every time.
ShareTimeline(v, cs) ==
  /\ MayShare(v, cs)
  /\ InsertShare(v, cs, TRUE, FALSE)
  /\ UNCHANGED <<video, clips, annotations, playlists, items, sharing>>

-----------------------------------------------------------------------------

\* The lists of ids a body may hold, repeats included.
Pick == BoundedSeq(DOMAIN clips, MaxClip)

ClipsNext ==
  \/ \E v \in Video : CreateClip(v) \/ DeleteLibraryVideo(v)
  \/ \E c \in DOMAIN clips : DeleteClip(c)

ListsNext ==
  \/ \E v \in Video, c \in DOMAIN clips \cup {0} : CreateAnnotation(v, c)
  \/ \E a \in DOMAIN annotations : DeleteAnnotation(a)
  \/ \E cs \in Pick : BatchDeleteClips(cs) \/ RateClips(cs)
  \/ CreatePlaylist
  \/ \E p \in DOMAIN playlists :
       \/ DeletePlaylist(p)
       \/ \E c \in DOMAIN clips : AddPlaylistItem(p, c) \/ RemovePlaylistItem(p, c)
       \/ \E cs \in Pick : ReorderPlaylist(p, cs)

LinksNext ==
  \/ \E v \in Video, cs \in Pick :
       ShareTimeline(v, cs) \/ \E t \in Tab : ShareRead(t, v, cs)
  \/ \E t \in Tab : ShareCommit(t)

ScoutingLibraryNext == ClipsNext \/ ListsNext \/ LinksNext

\* What is listed and shared is there: an item has its clip and playlist, a
\* clip and an annotation have their video.
ScoutingLibraryTypeOK ==
  /\ video \subseteq Video
  /\ \A c \in LiveClips : clips[c].video \in video
  /\ \A a \in DOMAIN annotations :
       /\ annotations[a].live => annotations[a].video \in video
       /\ annotations[a].clip \in LiveClips \cup {0}
  /\ items \in [DOMAIN items -> Nat]
  /\ DOMAIN items \subseteq LivePlaylists \X LiveClips
  /\ \A s \in DOMAIN shares : shares[s].video \in Video

-----------------------------------------------------------------------------
(* Properties *)

\* Sharing clips again, in any order, returns the link they have ("dedupe on
\* (video_id, sorted clip_ids)", scouting.py:1340): two links to the same clips of a
\* video, each as often, come from requests that overlapped, or one is a timeline.
SharesReused ==
  \A s, t \in DOMAIN shares :
    \/ s = t
    \/ shares[s].video # shares[t].video
    \/ ToBag(shares[s].clips) # ToBag(shares[t].clips)
    \/ shares[s].timeline \/ shares[t].timeline
    \/ shares[s].raced /\ shares[t].raced

=============================================================================
