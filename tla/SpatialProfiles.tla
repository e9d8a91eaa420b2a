-------------------------- MODULE SpatialProfiles --------------------------
(***************************************************************************)
(* Spatial profiles of a cursor or a point region: the pixels of its row   *)
(* or column in one channel, for each polarization asked for, whole or     *)
(* reduced for a plot of lower resolution (mip): from a mipmap of the      *)
(* file, or by keeping the two extremes of each block of 2 * mip pixels.   *)
(*                                                                         *)
(* A row and a column are alike, and so are the cursor and a point region. *)
(* How pixels are copied from tiles is left out; a pixel of a mipmap is    *)
(* named by its place.  The channel does not change while a profile is     *)
(* filled (FrameCache and CursorProfiles treat such changes).              *)
(***************************************************************************)
EXTENDS Integers, Sequences, FiniteSets

CONSTANTS ProfileRows,    \* sequences of pixels, of which images have a part
          ProfileImages,  \* [length, row, chunked, mips, stokes, num_stokes]
          ProfileConfigs, \* lists of [stokes, start, end, mip]
          ProfileZ        \* channels

\* A mipmap is found for every request of an image with mipmaps, and a range that
\* is given is not empty.
ASSUME ProfileRowsAssumption ==
    \A r \in DOMAIN ProfileRows : ProfileRows[r] \in Seq(Int)
ASSUME ProfileImagesAssumption ==
    \A i \in ProfileImages :
        /\ i.row \in DOMAIN ProfileRows /\ i.length \in 1..Len(ProfileRows[i.row])
        /\ i.chunked \in BOOLEAN /\ i.mips \subseteq Nat \ {0}
        /\ i.num_stokes \in 1..13
        /\ \A name \in DOMAIN i.stokes : i.stokes[name] \in 0..i.num_stokes - 1
ASSUME ProfileConfigsAssumption ==
    \A configs \in ProfileConfigs : \A n \in DOMAIN configs :
        LET c == configs[n]
        IN /\ c.start \in Nat /\ c.end \in Nat /\ c.mip \in Nat
           /\ c.end = 0 \/ c.start < c.end
           /\ \A i \in ProfileImages :
                 c.mip >= 2 /\ 2 \in i.mips => {c.mip \div n2 : n2 \in {1, 2, 4, 8}} \cap i.mips # {}
ASSUME ProfileZAssumption == ProfileZ \subseteq Nat /\ ProfileZ # {}

VARIABLES profile_image,  \* the image of the Frame
          profile_z, profile_stokes,  \* _z_index, _stokes_index
          tile_of,        \* TileCache::_z, _stokes: the channel of its tiles
          cache_filled,   \* _image_cache_valid
          spatial_configs,\* _cursor_spatial_configs and the cursor
          spatial_data    \* what was filled for them

spatialVars == <<profile_image, profile_z, profile_stokes, tile_of, cache_filled,
                 spatial_configs, spatial_data>>

NaNPixel == 999
Plinear == 14             \* the index of the computed polarization
CurrentStokes == ""       \* no polarization in a coordinate
NotAsked == [position |-> -1, configs |-> <<>>]
NotFilled == [done |-> FALSE, aborted |-> FALSE, messages |-> {}]

Ceil(a, b) == (a + b - 1) \div b
Least(a, b) == IF a < b THEN a ELSE b

UsesTiles == profile_image.chunked
HasMip(mip) == mip \in profile_image.mips
\* Plinear needs Q and U.
Computable == {"Q", "U"} \subseteq DOMAIN profile_image.stokes

\* The pixel of the row at i, in a channel and a polarization.
Pixel(z, s, i) ==
    LET pixel == ProfileRows[profile_image.row][i + 1]
    IN IF pixel = NaNPixel THEN NaNPixel ELSE pixel + 20 * z + 100 * s
Pixels(z, s, start, end) == [k \in 1..end - start |-> Pixel(z, s, start + k - 1)]
\* Pixel i of the mipmap at the cursor's row.
MipPixel(z, s, mip, i) == <<z, s, mip, i>>

SpatialProfilesTypeOK ==
    /\ profile_image \in ProfileImages
    /\ profile_z \in ProfileZ /\ profile_stokes \in 0..profile_image.num_stokes - 1 \cup {Plinear}
    /\ tile_of \in ProfileZ \X (0..profile_image.num_stokes - 1)
    /\ cache_filled \in BOOLEAN
    /\ spatial_configs.configs \in ProfileConfigs \cup {<<>>}
    /\ spatial_data.done \in BOOLEAN /\ spatial_data.aborted \in BOOLEAN

\* The constructor: the image cache is not filled for chunked files with mipmaps.
SpatialProfilesInit ==
    /\ profile_image \in ProfileImages
    /\ profile_z = (CHOOSE z \in ProfileZ : \A y \in ProfileZ : z <= y) /\ profile_stokes = 0
    /\ tile_of = <<profile_z, 0>>
    /\ cache_filled = ~(UsesTiles /\ HasMip(2))
    /\ spatial_configs = NotAsked /\ spatial_data = NotFilled

\* Frame::SetImageChannels: what is not loaded on demand is loaded now; only
\* the other images have their tile cache reset.
SetSpatialChannel(z, s) ==
    /\ spatial_configs = NotAsked
    /\ <<z, s>> # <<profile_z, profile_stokes>>
    /\ s = Plinear => Computable
    /\ profile_z' = z /\ profile_stokes' = s
    /\ cache_filled' = (~(UsesTiles /\ HasMip(2)) \/ s = Plinear)
    /\ tile_of' = IF cache_filled' THEN tile_of ELSE <<z, s>>
    /\ UNCHANGED <<profile_image, spatial_configs, spatial_data>>

\* Frame::SetSpatialRequirements with the cursor, or those of a point region.
SetCursorSpatialConfigs(position, configs) ==
    /\ spatial_configs' = [position |-> position, configs |-> configs]
    /\ UNCHANGED <<profile_image, profile_z, profile_stokes, tile_of, cache_filled, spatial_data>>

-----------------------------------------------------------------------------
\* Frame::GetStokesTypeIndex: the index of the polarization of a coordinate, or
\* -1.  Where the header has none, I, Q, U and V are assumed.
GetStokesTypeIndex(name) ==
    LET assumed == CASE name = "I" -> 0 [] name = "Q" -> 1 [] name = "U" -> 2 [] OTHER -> 3
    IN IF name = CurrentStokes THEN profile_stokes
       ELSE IF name \in DOMAIN profile_image.stokes THEN profile_image.stokes[name]
       ELSE IF name = "Plinear" THEN Plinear
       ELSE IF assumed < profile_image.num_stokes THEN assumed ELSE -1

\* The largest mipmap that is no larger than the one asked for.
LoaderMip(mip) == CHOOSE m \in {mip \div n : n \in {1, 2, 4, 8}} \cap profile_image.mips :
                     \A other \in {mip \div n : n \in {1, 2, 4, 8}} \cap profile_image.mips : other <= m

\* The pixels from start to end - 1, as the Frame has them.  An empty profile
\* of the other polarizations is up to the loader.
ReadPixels(s, start, end) ==
    IF s # profile_stokes THEN Pixels(profile_z, s, start, end)
    ELSE IF UsesTiles THEN Pixels(tile_of[1], tile_of[2], start, end)
    ELSE Pixels(profile_z, s, start, end)

\* The extremes of a block in the order of their places: of equal values the
\* first has it, and the larger goes first if both have one place.
Extremes(block) ==
    LET seen == {i \in DOMAIN block : block[i] # NaNPixel}
        First(v) == CHOOSE i \in seen : block[i] = v /\ \A j \in seen : block[j] = v => i <= j
        min == CHOOSE v \in {block[i] : i \in seen} : \A j \in seen : v <= block[j]
        max == CHOOSE v \in {block[i] : i \in seen} : \A j \in seen : v >= block[j]
    IN IF seen = {} THEN <<NaNPixel, NaNPixel>>
       ELSE IF First(min) < First(max) THEN <<min, max>> ELSE <<max, min>>

\* Block k of 2 * mip pixels is written over entries 2k and 2k + 1; the second
\* entry of a profile of one pixel is outside, and what resize adds is zero.
Decimate(profile, mip, size) ==
    LET Block(k) == SubSeq(profile, 2 * mip * k + 1, Least(2 * mip * (k + 1), Len(profile)))
    IN [i \in 1..size |-> IF i > Len(profile) /\ Len(profile) = 1 THEN 0
                          ELSE Extremes(Block((i - 1) \div 2))[1 + ((i - 1) % 2)]]

Profile(config, mip, values) ==
    {[config |-> config, mip |-> mip, values |-> values]}
NoSuchProfile == {}

\* One profile.  size_t end - start wraps if the rounded start is past the end
\* of the row: the vector cannot have that size, and its exception ends the
\* process.
CutShort(start, end) == start > end

RoundedStart(config) == IF config.mip >= 2 THEN 2 * Ceil(config.start, 2 * config.mip) * config.mip
                        ELSE config.start
RequestedEnd(config) == IF config.end = 0 THEN profile_image.length ELSE config.end
RoundedEnd(config) ==
    IF config.mip >= 2
    THEN Least(2 * Ceil(RequestedEnd(config), 2 * config.mip) * config.mip, profile_image.length)
    ELSE RequestedEnd(config)

FromMipmap(s, config) == config.mip >= 2 /\ HasMip(2) /\ s # Plinear

GetDownsampled(s, config) ==
    LET mip == LoaderMip(config.mip)
        min == Ceil(config.start, mip)
    IN Profile(config, mip, [k \in 1..Ceil(RequestedEnd(config), mip) - min |->
                                MipPixel(profile_z, s, mip, min + k - 1)])

FillProfile(s, config) ==
    LET start == RoundedStart(config)
        end == RoundedEnd(config)
        pixels == ReadPixels(s, start, end)
        size == 2 * (Ceil(RequestedEnd(config), 2 * config.mip) - Ceil(config.start, 2 * config.mip))
    IN IF FromMipmap(s, config) THEN GetDownsampled(s, config)
       ELSE IF s = Plinear /\ ~Computable THEN NoSuchProfile
       ELSE Profile(config, config.mip,
                    IF config.mip >= 2 /\ ~HasMip(2)
                    THEN Decimate(pixels, config.mip, size) ELSE pixels)

\* The value at the cursor; zero where there is none to read.
CursorValue(s) ==
    LET at == spatial_configs.position
    IN IF s = profile_stokes /\ ~cache_filled THEN Pixel(tile_of[1], tile_of[2], at)
       ELSE IF s = Plinear /\ ~Computable THEN 0
       ELSE Pixel(profile_z, s, at)

\* Frame::FillSpatialProfileData: a message for each polarization.
FillSpatialProfileData ==
    LET configs == spatial_configs.configs
        asked == {i \in DOMAIN configs : GetStokesTypeIndex(configs[i].stokes) # -1}
        Of(s) == {i \in asked : GetStokesTypeIndex(configs[i].stokes) = s}
        stokes == IF configs = <<>> THEN {profile_stokes}
                  ELSE {GetStokesTypeIndex(configs[i].stokes) : i \in asked}
        throws == \E s \in stokes : \E i \in Of(s) :
                     /\ ~FromMipmap(s, configs[i])
                     /\ CutShort(RoundedStart(configs[i]), RoundedEnd(configs[i]))
        Message(s) == [z |-> profile_z, stokes |-> s, value |-> CursorValue(s),
                       profiles |-> UNION {FillProfile(s, configs[i]) : i \in Of(s)}]
    IN /\ spatial_configs # NotAsked /\ ~spatial_data.done
       /\ spatial_data' = [done |-> TRUE, aborted |-> throws,
                           messages |-> IF throws THEN {} ELSE {Message(s) : s \in stokes}]
       /\ UNCHANGED <<profile_image, profile_z, profile_stokes, tile_of, cache_filled, spatial_configs>>

\* The next requirements; a process that ended has none.
SpatialDataSent ==
    /\ spatial_data.done /\ ~spatial_data.aborted
    /\ spatial_configs' = NotAsked /\ spatial_data' = NotFilled
    /\ UNCHANGED <<profile_image, profile_z, profile_stokes, tile_of, cache_filled>>

\* Ranges within the row.
Askable(c) == c.start < profile_image.length /\ c.end <= profile_image.length

SpatialProfilesNext ==
    \/ \E z \in ProfileZ, s \in 0..profile_image.num_stokes - 1 \cup {Plinear} : SetSpatialChannel(z, s)
    \/ /\ spatial_configs = NotAsked
       /\ \E configs \in ProfileConfigs :
             /\ \A i \in DOMAIN configs : Askable(configs[i])
             /\ SetCursorSpatialConfigs(profile_image.length - 1, configs)
    \/ FillSpatialProfileData \/ SpatialDataSent

SpatialProfilesSpec == SpatialProfilesInit /\ [][SpatialProfilesNext]_spatialVars

-----------------------------------------------------------------------------
\* What a profile is to be, said of the image itself.  Exceptions in the code:
\* the tiles are those of a channel left before (SetImageChannels does not reset
\* them when it fills the image cache), a profile of a single pixel has a zero
\* for its second value, and the pixels of a computed polarization of an image
\* with mipmaps are not reduced.
StaleTiles(s) == s = profile_stokes /\ UsesTiles /\ tile_of # <<profile_z, s>>

SentPixel(s, i) == IF StaleTiles(s) THEN Pixel(tile_of[1], tile_of[2], i) ELSE Pixel(profile_z, s, i)

\* Two values for each block, its extremes in the order in which it has them.
PairOfBlock(s, first, last, a, b) ==
    LET seen == {i \in first..last : SentPixel(s, i) # NaNPixel}
    IN IF seen = {} THEN a = NaNPixel /\ b = NaNPixel
       ELSE \E i, j \in seen :
               /\ SentPixel(s, i) = a /\ SentPixel(s, j) = b
               /\ \A k \in seen : SentPixel(s, k) >= Least(a, b) /\ SentPixel(s, k) <= a + b - Least(a, b)
               /\ i <= j

ProfileReduced(s, p) ==
    LET block == 2 * p.mip
        first == Ceil(p.config.start, block)
        last == Ceil(RequestedEnd(p.config), block) - 1
    IN /\ Len(p.values) = 2 * (last - first + 1)
       /\ \A b \in first..last :
             LET a == block * b
                 z == Least(a + block, profile_image.length) - 1
                 k == 2 * (b - first) + 1
             IN \/ PairOfBlock(s, a, z, p.values[k], p.values[k + 1])
                \/ first = last /\ a = z /\ p.values = <<SentPixel(s, a), 0>>

ProfileWhole(s, p) ==
    LET start == IF p.mip >= 2 THEN RoundedStart(p.config) ELSE p.config.start
        end == IF p.mip >= 2 THEN RoundedEnd(p.config) ELSE RequestedEnd(p.config)
    IN p.values = [k \in 1..end - start |-> SentPixel(s, start + k - 1)]

ProfileFromMipmap(s, p) ==
    LET places == {i \in 0..profile_image.length :
                      p.config.start <= i * p.mip /\ i * p.mip < RequestedEnd(p.config)}
    IN /\ p.mip <= p.config.mip /\ HasMip(p.mip)
       /\ {p.values[k] : k \in DOMAIN p.values} = {MipPixel(profile_z, s, p.mip, i) : i \in places}
       /\ \A k \in DOMAIN p.values : \A l \in DOMAIN p.values : k < l => p.values[k][4] < p.values[l][4]

\* Every profile asked for is there, with its pixels; every message has the
\* value of its polarization at the cursor.
SpatialProfilesCorrect ==
    spatial_data.done =>
        IF spatial_data.aborted
        THEN \* a short range at the end of the row
             \E i \in DOMAIN spatial_configs.configs :
                LET c == spatial_configs.configs[i]
                IN c.mip >= 2 /\ profile_image.length - c.start < 2 * c.mip
        ELSE /\ \A i \in DOMAIN spatial_configs.configs :
                   LET c == spatial_configs.configs[i]
                   IN \/ c.stokes \notin DOMAIN profile_image.stokes \cup {CurrentStokes}
                      \/ \E m \in spatial_data.messages : \E p \in m.profiles : p.config = c
             /\ \A m \in spatial_data.messages :
                   /\ \/ m.value = Pixel(profile_z, m.stokes, spatial_configs.position)
                      \/ m.stokes = Plinear /\ ~Computable /\ m.value = 0
                   /\ \A p \in m.profiles :
                         IF p.config.mip >= 2 /\ ~HasMip(2) THEN ProfileReduced(m.stokes, p)
                         ELSE IF FromMipmap(m.stokes, p.config) THEN ProfileFromMipmap(m.stokes, p)
                         ELSE ProfileWhole(m.stokes, p)
=============================================================================
