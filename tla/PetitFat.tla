------------------------------ MODULE PetitFat ------------------------------
(***************************************************************************)
(* Petit FatFs as the bootloader configures it (FAT32 only; mount, open,   *)
(* read) over the SD/MMC driver of diskio.c.  A disk is a function from    *)
(* sectors to records with the fields that a sector of that use has; the   *)
(* three numbers that depend on the 512 bytes of a sector are constants.   *)
(***************************************************************************)
EXTENDS Integers, Sequences, FiniteSets, SequencesExt

CONSTANTS
  SectorBytes,      \* 512
  FatEntries,       \* FAT entries of a sector, 128
  DirEntries,       \* directory entries of a sector, 16
  NameLen, ExtLen,  \* 8 and 3
  FAT32_MIN,        \* clusters a FAT32 volume has at least, 0xFFF7
  Disks, Cards,     \* the disks and cards to consider
  Paths,            \* the paths to open, sequences of characters
  BTR,              \* bound: bytes asked for per pf_read
  MaxErrors         \* bound: blocks the card does not deliver

VARIABLES
  card,    \* the card in the slot, and CardType as disk_initialize left it
  disk,    \* what is on it
  fs,      \* the file system object; fs.enabled: FatFs points to it
  dj,      \* the directory object of pf_open
  call,    \* the running call: what it does, the rest of its path, its result
  out,     \* the bytes pf_read has stored
  errors   \* undelivered blocks still to come

fatVars == <<card, disk, fs, dj, call, out, errors>>

(***************************************************************************)
(* diskio.c                                                                *)
(***************************************************************************)
(* The cards and what they answer to the commands of disk_initialize.      *)
(* send_cmd gives up after ten bytes without a response, which counts as   *)
(* a response above one; a card.busy leaves the idle state too late.       *)
CardKinds == {"none", "MMC", "SD1", "SD2", "SDHC", "low_voltage"}
send_cmd(c, cmd) ==
  CASE c.kind = "none" -> 255
    [] cmd = "CMD0" -> 1
    [] cmd = "CMD8" -> IF c.kind \in {"SD2", "SDHC", "low_voltage"} THEN 1 ELSE 5
    [] cmd = "ACMD41" -> IF c.kind = "MMC" THEN 5 ELSE IF c.busy THEN 1 ELSE 0
    [] cmd = "CMD1" -> IF c.busy THEN 1 ELSE 0
    [] OTHER -> 0

(* The card type, "" for none: the initialisation of disk_initialize, with *)
(* its wait for the card to leave the idle state                           *)
disk_initialize(c) ==
  IF send_cmd(c, "CMD0") # 1 THEN ""
  ELSE IF send_cmd(c, "CMD8") = 1
    THEN IF c.kind = "low_voltage" \/ send_cmd(c, "ACMD41") # 0 THEN ""
         ELSE IF send_cmd(c, "CMD58") # 0 THEN ""
         ELSE IF c.kind = "SDHC" THEN "SD2_BLOCK" ELSE "SD2"
    ELSE LET ty == IF send_cmd(c, "ACMD41") <= 1 THEN "SD1" ELSE "MMC"
         IN  IF send_cmd(c, IF ty = "SD1" THEN "ACMD41" ELSE "CMD1") = 0
                /\ send_cmd(c, "CMD16") = 0
               THEN ty ELSE ""

(* The block a card delivers for the argument of READ_SINGLE_BLOCK: all    *)
(* but high capacity cards count bytes                                     *)
Block(c, arg) == IF c.kind = "SDHC" THEN arg ELSE arg \div SectorBytes

(* disk_readp without an error: the sector's contents                      *)
disk_readp(sector) ==
  disk.sectors[Block(card, IF card.type = "SD2_BLOCK" THEN sector ELSE sector * SectorBytes)]

(* The access fails: no response to the command, or no data in time        *)
ReadError == errors > 0 /\ errors' = errors - 1
ReadOk == UNCHANGED errors

(***************************************************************************)
(* pff.c: clusters, sectors, names                                         *)
(***************************************************************************)
(* get_fat: 1 outside the volume                                           *)
get_fat(clst) ==
  IF clst < 2 \/ clst >= fs.n_fatent THEN 1
  ELSE disk_readp(fs.fatbase + (clst \div FatEntries)).fat[(clst % FatEntries) + 1]

(* clust2sect: 0 for an invalid cluster.  clst - 2 is unsigned.            *)
clust2sect_Inclusive(clst) ==  \* mutant: one cluster too many
  IF clst < 2 \/ clst - 2 > fs.n_fatent - 2 THEN 0 ELSE (clst - 2) * fs.csize + fs.database
clust2sect(clst) ==
  IF clst < 2 \/ clst - 2 >= fs.n_fatent - 2 THEN 0 ELSE (clst - 2) * fs.csize + fs.database

(* create_name: the first segment of a path in directory form, upper case, *)
(* name and extension padded with blanks; what follows it; whether it is   *)
(* the last.  Characters past the length of a part end the segment.        *)
Case == [b |-> "B", d |-> "D", n |-> "N"]
Upper(c) == IF c \in DOMAIN Case THEN Case[c] ELSE c
create_name(path) ==
  LET Start == [i |-> 0, ni |-> NameLen, si |-> 0, end |-> "no",
                fn |-> [k \in 1 .. NameLen + ExtLen |-> " "]]
      Take(s, c) ==
        CASE s.end # "no" -> s
          [] c = "/" -> [s EXCEPT !.end = "/", !.si = @ + 1]
          [] c # "/" /\ (c = "." \/ s.i >= s.ni) ->
               IF s.ni = NameLen /\ c = "."
                 THEN [s EXCEPT !.i = NameLen, !.ni = NameLen + ExtLen, !.si = @ + 1]
                 ELSE [s EXCEPT !.end = c, !.si = @ + 1]
          [] OTHER -> [s EXCEPT !.i = @ + 1, !.si = @ + 1, !.fn[s.i + 1] = Upper(c)]
      seg == FoldLeft(Take, Start, path)
  IN  [fn |-> seg.fn, last |-> seg.end = "no", rest |-> SubSeq(path, seg.si + 1, Len(path))]

(* check_fs: 0 a FAT boot record, 1 another boot record, 2 none            *)
check_fs(sect) ==
  LET s == disk_readp(sect)
  IN  IF ~s.signed THEN 2 ELSE IF s.boot = {} THEN 1 ELSE 0

(***************************************************************************)
(* pf_mount                                                                *)
(***************************************************************************)
NoFile == [enabled |-> FALSE, opened |-> FALSE, csize |-> 0, n_fatent |-> 0, fatbase |-> 0,
           dirbase |-> 0, database |-> 0, fptr |-> 0, fsize |-> 0, org_clust |-> 0,
           curr_clust |-> 0, dsect |-> 0]

Return(res) == call' = [call EXCEPT !.pc = "idle", !.res = res]

(* The volume starts at sector 0 or where the first partition entry says   *)
bsect ==
  IF check_fs(0) = 1 /\ disk_readp(0).partition # 0 THEN disk_readp(0).partition ELSE 0

Mounted(b, bpb) ==
  LET fatsize == bpb.fatsz * bpb.fats
      mclst == ((bpb.sectors - bpb.reserved - fatsize) \div bpb.csize) + 2
  IN  [NoFile EXCEPT !.enabled = TRUE, !.csize = bpb.csize, !.n_fatent = mclst,
                     !.fatbase = b + bpb.reserved, !.dirbase = bpb.root,
                     !.database = b + bpb.reserved + fatsize]

pf_mount ==
  /\ call.pc = "idle"
  /\ LET type == disk_initialize(card)
     IN  /\ card' = [card EXCEPT !.type = type]
         /\ call' = [call EXCEPT !.pc = IF type = "" THEN "idle" ELSE "mount",
                                 !.res = IF type = "" THEN "FR_NOT_READY" ELSE @]
  /\ fs' = [fs EXCEPT !.enabled = FALSE]
  /\ UNCHANGED <<disk, dj, out, errors>>

MountRead ==
  /\ call.pc = "mount"
  /\ \/ ReadError /\ Return("FR_DISK_ERR") /\ UNCHANGED fs
     \/ /\ ReadOk
        /\ IF check_fs(bsect) # 0 THEN Return("FR_NO_FILESYSTEM") /\ UNCHANGED fs
           ELSE \E bpb \in disk_readp(bsect).boot :
                  IF Mounted(bsect, bpb).n_fatent >= FAT32_MIN
                    THEN Return("FR_OK") /\ fs' = Mounted(bsect, bpb)
                    ELSE Return("FR_NO_FILESYSTEM") /\ UNCHANGED fs
  /\ UNCHANGED <<card, disk, dj, out>>

(***************************************************************************)
(* pf_open                                                                 *)
(***************************************************************************)
(* dir_rewind: cluster 0 stands for the root directory                     *)
dir_rewind(sclust) ==
  LET clst == IF sclust = 0 THEN fs.dirbase ELSE sclust
  IN  [index |-> 0, clust |-> clst, sect |-> clust2sect(clst)]

(* follow_path, one segment after the other from the root directory        *)
Follow(sclust, path, full) ==
  /\ IF sclust = 1 \/ sclust >= fs.n_fatent
       THEN Return("FR_DISK_ERR") /\ UNCHANGED dj
       ELSE /\ dj' = dir_rewind(sclust)
            /\ call' = [call EXCEPT !.pc = "find", !.seg = create_name(path), !.path = full]

pf_open ==
  /\ call.pc = "idle"
  /\ IF ~fs.enabled THEN Return("FR_NOT_ENABLED") /\ UNCHANGED <<fs, dj>>
     ELSE fs' = [fs EXCEPT !.opened = FALSE] /\ \E p \in Paths : Follow(0, p, p)
  /\ out' = <<>>
  /\ UNCHANGED <<card, disk, errors>>

(* dir_next past entry i - 1: the next sector, cluster by cluster          *)
dir_next ==
  LET i == dj.index + 1
      newSector == i % DirEntries = 0
      newCluster == newSector /\ (i \div DirEntries) % fs.csize = 0
      clst == get_fat(dj.clust)
  IN  CASE dj.sect = 0 -> Return("FR_NO_FILE") /\ UNCHANGED dj
        [] newCluster /\ clst <= 1 -> Return("FR_DISK_ERR") /\ UNCHANGED dj
        [] newCluster /\ clst >= fs.n_fatent -> Return("FR_NO_FILE") /\ UNCHANGED dj
        [] OTHER ->
             /\ dj' = IF newCluster THEN [index |-> i, clust |-> clst, sect |-> clust2sect(clst)]
                      ELSE [dj EXCEPT !.index = i, !.sect = IF newSector THEN @ + 1 ELSE @]
             /\ UNCHANGED call

(* The entry pf_open was looking for: a file to open, or a directory to go *)
(* on in                                                                   *)
Found(entry) ==
  IF call.seg.last
    THEN IF entry.attr = "dir" THEN Return("FR_NO_FILE") /\ UNCHANGED <<fs, dj>>
         ELSE /\ Return("FR_OK")
              /\ fs' = [fs EXCEPT !.org_clust = entry.clust, !.fsize = entry.size,
                                  !.fptr = 0, !.opened = TRUE]
              /\ UNCHANGED dj
    ELSE IF entry.attr # "dir" THEN Return("FR_NO_FILE") /\ UNCHANGED <<fs, dj>>
         ELSE Follow(entry.clust, call.seg.rest, call.path) /\ UNCHANGED fs

(* One round of dir_find                                                   *)
dir_find ==
  /\ call.pc = "find"
  /\ \/ ReadError /\ Return("FR_DISK_ERR") /\ UNCHANGED <<fs, dj>>
     \/ /\ ReadOk
        /\ LET entry == disk_readp(dj.sect).dir[(dj.index % DirEntries) + 1]
           IN  CASE entry.name = <<>> -> Return("FR_NO_FILE") /\ UNCHANGED <<fs, dj>>
                 [] entry.attr # "volume" /\ entry.name = call.seg.fn -> Found(entry)
                 [] OTHER -> dir_next /\ UNCHANGED fs
  /\ UNCHANGED <<card, disk, out>>

(***************************************************************************)
(* pf_read                                                                 *)
(***************************************************************************)
Min2(a, b) == IF a < b THEN a ELSE b

pf_read ==
  /\ call.pc = "idle"
  /\ CASE ~fs.enabled -> Return("FR_NOT_ENABLED")
       [] fs.enabled /\ ~fs.opened -> Return("FR_NOT_OPENED")
       [] OTHER -> \E btr \in 1 .. BTR :
            call' = [call EXCEPT !.pc = "read", !.btr = Min2(btr, fs.fsize - fs.fptr)]
  /\ UNCHANGED <<card, disk, fs, dj, out, errors>>

(* ABORT: the file is closed                                               *)
Abort == Return("FR_DISK_ERR") /\ fs' = [fs EXCEPT !.opened = FALSE] /\ UNCHANGED out

(* On a sector boundary: the cluster and sector to read from               *)
NextSector ==
  LET cs == (fs.fptr \div SectorBytes) % fs.csize
      clst == IF cs # 0 THEN fs.curr_clust
              ELSE IF fs.fptr = 0 THEN fs.org_clust ELSE get_fat(fs.curr_clust)
  IN  IF fs.fptr % SectorBytes # 0 THEN fs
      ELSE [fs EXCEPT !.curr_clust = clst,
                      !.dsect = IF clust2sect(clst) = 0 THEN 0 ELSE clust2sect(clst) + cs]

(* One round of the loop of pf_read: part of one sector                    *)
ReadChunk ==
  /\ call.pc = "read" /\ call.btr > 0
  /\ LET f == NextSector
         ofs == f.fptr % SectorBytes
         rcnt == Min2(SectorBytes - ofs, call.btr)
     IN  \/ ReadError /\ Abort
         \/ /\ ReadOk
            /\ IF f.dsect = 0 THEN Abort
               ELSE /\ fs' = [f EXCEPT !.fptr = @ + rcnt]
                    /\ out' = out \o SubSeq(disk_readp(f.dsect).data, ofs + 1, ofs + rcnt)
                    /\ call' = [call EXCEPT !.btr = @ - rcnt]
  /\ UNCHANGED <<card, disk, dj>>

ReadReturn ==
  /\ call.pc = "read" /\ call.btr = 0
  /\ Return("FR_OK")
  /\ UNCHANGED <<card, disk, fs, dj, out, errors>>

FatInit ==
  /\ card \in Cards /\ disk \in Disks
  /\ fs = NoFile
  /\ dj = [index |-> 0, clust |-> 0, sect |-> 0]
  /\ call = [pc |-> "idle", res |-> "none", seg |-> create_name(<<>>),
             path |-> <<>>, btr |-> 0]
  /\ out = <<>>
  /\ errors = MaxErrors

FatNext == \/ pf_mount \/ MountRead \/ pf_open \/ dir_find
           \/ pf_read \/ ReadChunk \/ ReadReturn

(***************************************************************************)
(* What a reader of the file may rely on.  disk.files says which paths     *)
(* name a file and what it holds; its layout is of no concern here.        *)
(***************************************************************************)
Delivered ==
  fs.enabled /\ fs.opened =>
               /\ call.path \in DOMAIN disk.files
               /\ fs.fptr <= Len(disk.files[call.path])
               /\ out = SubSeq(disk.files[call.path], 1, fs.fptr)
               /\ fs.fptr = fs.fsize => fs.fsize = Len(disk.files[call.path])
MissingIsMissing == call.pc = "idle" /\ call.res = "FR_NO_FILE" => call.path \notin DOMAIN disk.files

(* While a file is open, what pf_read has delivered since pf_open is the   *)
(* file up to the file pointer: across sector and cluster boundaries, for  *)
(* every way to cut the reads, from block- and byte-addressed cards.  A    *)
(* volume whose cluster chain is cut short yields the bytes up to there    *)
(* and nothing from outside.  And pf_open reports a missing file only when *)
(* the directories, all their sectors and clusters, do not hold it.        *)
FileAccessExact == Delivered /\ MissingIsMissing
=============================================================================
