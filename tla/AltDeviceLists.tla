----------------------------- MODULE AltDeviceLists -----------------------------
(***************************************************************************)
(* The devices of the HAL that are not files: DMA channels (alt_dma.h,     *)
(* alt_dma_dev.h, alt_dma_txchan_open.c, alt_dma_rxchan_open.c) and flash  *)
(* (alt_flash_dev.h, alt_flash_dev.c).  Drivers register them, the two     *)
(* halves of a DMA device often under one name, in a list for each kind;   *)
(* the program opens them by name.  It posts requests on a DMA channel,    *)
(* and the driver calls back from its interrupt routine when one is done.  *)
(* Drivers are external: one of DMA queues up to "depth" requests and does *)
(* them in turn.                                                           *)
(*                                                                         *)
(* Left out are the data, and what ioctl() requests do to a device.  What  *)
(* the functions on flash blocks do is the matter of AltCache.             *)
(***************************************************************************)
EXTENDS Integers, Sequences

CONSTANTS
  Channels,     \* [name, dir]: alt_dma_txchan_dev, alt_dma_rxchan_dev, alt_flash_dev
  NoName,       \* a null pointer for a name
  QueueDepth,        \* requests a channel can queue
  Handles       \* opaque values, passed to the function that is called back

Directions == {"tx", "rx", "flash"}
NoChan == [name |-> NoName, dir |-> "none"]

ASSUME DmaAssumption ==
  /\ \A dev \in Channels : dev.dir \in Directions
  /\ QueueDepth \in Nat \ {0}

Names == {dev.name : dev \in Channels} \ {NoName}

VARIABLES
  dma_list,       \* alt_{dma_txchan,dma_rxchan,flash_dev}_list, newest first
  chan,           \* what the program has open
  queue,          \* requests in a driver
  asked,          \* history: the name the program opened the channel with,
  outstanding,    \* its requests that were accepted and have not called back,
  room,           \* and how many the last answer of space() leaves
  dma_ret         \* what the last call returned, or the errno it set

dmaVars == <<dma_list, chan, queue, asked, outstanding, room, dma_ret>>

DmaInit ==
  /\ dma_list = [dir \in Directions |-> <<>>]
  /\ chan = [dir \in Directions |-> NoChan]
  /\ queue = [dev \in Channels |-> <<>>]
  /\ asked = [dir \in Directions |-> NoName]
  /\ outstanding = {}
  /\ room = [dir \in Directions |-> 0]
  /\ dma_ret = "0"

Registered == {dev \in Channels : \E k \in DOMAIN dma_list[dev.dir] : dma_list[dev.dir][k] = dev}

\* alt_dev_llist_insert(), once for a device.
Register(dev) ==
  /\ dev \notin Registered
  /\ IF dev.name = NoName
     THEN dma_ret' = "-EINVAL" /\ UNCHANGED dma_list
     ELSE dma_ret' = "0" /\ dma_list' = [dma_list EXCEPT ![dev.dir] = <<dev>> \o @]
  /\ UNCHANGED <<chan, queue, asked, outstanding, room>>

alt_dma_txchan_reg(dev) == dev.dir = "tx" /\ Register(dev)
alt_dma_rxchan_reg(dev) == dev.dir = "rx" /\ Register(dev)
alt_flash_device_register(dev) == dev.dir = "flash" /\ Register(dev)

FindIn(name, list) ==
  LET hits == {k \in DOMAIN list : list[k].name = name}
  IN  IF hits = {} THEN NoChan ELSE list[CHOOSE k \in hits : \A j \in hits : k <= j]

\* Variant: one list is searched for channels of both directions.
OneList(dir, name) == FindIn(name, dma_list["tx"])

Found(dir, name) == FindIn(name, dma_list[dir])

Open(dir, name) ==
  /\ chan' = [chan EXCEPT ![dir] = Found(dir, name)]
  /\ dma_ret' = IF chan'[dir] = NoChan THEN "ENODEV" ELSE "0"
  /\ asked' = [asked EXCEPT ![dir] = name]
  /\ room' = [room EXCEPT ![dir] = 0]
  /\ UNCHANGED <<dma_list, queue, outstanding>>

alt_dma_txchan_open(name) == Open("tx", name)
alt_dma_rxchan_open(name) == Open("rx", name)

\* A driver that has an open() of its own may refuse.
alt_flash_open_dev(name) ==
  /\ chan' \in {[chan EXCEPT !["flash"] = fd] : fd \in {Found("flash", name), NoChan}}
  /\ asked' = [asked EXCEPT !["flash"] = name]
  /\ dma_ret' = IF chan'["flash"] = NoChan THEN "NULL" ELSE "0"
  /\ UNCHANGED <<dma_list, queue, outstanding, room>>

\* Nothing happens to the channel: its requests go on.
Close(dir) ==
  /\ chan' = [chan EXCEPT ![dir] = NoChan] /\ asked' = [asked EXCEPT ![dir] = NoName]
  /\ room' = [room EXCEPT ![dir] = 0]
  /\ dma_ret' = "0"
  /\ UNCHANGED <<dma_list, queue, outstanding>>

alt_dma_txchan_close == Close("tx")
alt_dma_rxchan_close == Close("rx")
alt_flash_close_dev == Close("flash")

-----------------------------------------------------------------------------
\* The driver's function that takes a request.
Accepts(dev) == Len(queue[dev]) < QueueDepth

Take(dev, handle) ==
  IF Accepts(dev)
  THEN dma_ret' = "0" /\ queue' = [queue EXCEPT ![dev] = Append(@, handle)]
  ELSE dma_ret' = "negative" /\ UNCHANGED queue

NoDevice == dma_ret' = "-ENODEV" /\ UNCHANGED queue

Post(dir, handle) ==
  /\ \A r \in outstanding : r.handle # handle
  /\ IF chan[dir] = NoChan THEN NoDevice ELSE Take(chan[dir], handle)
  /\ outstanding' =
       IF dma_ret' = "0"
       THEN outstanding \cup {[handle |-> handle, name |-> asked[dir], dir |-> dir]}
       ELSE outstanding
  /\ room' = [room EXCEPT ![dir] = IF @ > 0 THEN @ - 1 ELSE 0]
  /\ UNCHANGED <<dma_list, chan, asked>>

alt_dma_txchan_send(handle) == Post("tx", handle)
alt_dma_rxchan_prepare(handle) == Post("rx", handle)

alt_dma_txchan_space ==
  /\ IF chan["tx"] = NoChan THEN dma_ret' = "-ENODEV" /\ UNCHANGED room
     ELSE /\ room' = [room EXCEPT !["tx"] = QueueDepth - Len(queue[chan["tx"]])]
          /\ dma_ret' = "0"
  /\ UNCHANGED <<dma_list, chan, queue, asked, outstanding>>

Ioctl(dir) ==
  /\ dma_ret' \in IF chan[dir] = NoChan THEN {"-ENODEV"} ELSE {"0", "negative"}
  /\ UNCHANGED <<dma_list, chan, queue, asked, outstanding, room>>

alt_dma_txchan_ioctl == Ioctl("tx")
alt_dma_rxchan_ioctl == Ioctl("rx")

\* Undefined without a channel: the structure is read in any case.
alt_dma_rxchan_depth ==
  /\ chan["rx"] # NoChan
  /\ dma_ret' = "depth"
  /\ UNCHANGED <<dma_list, chan, queue, asked, outstanding, room>>

\* The driver's interrupt routine calls back.
Done(dev) ==
  /\ queue[dev] # <<>>
  /\ queue' = [queue EXCEPT ![dev] = Tail(@)]
  /\ outstanding' = {r \in outstanding : r.handle # Head(queue[dev])}
  /\ UNCHANGED <<dma_list, chan, asked, room, dma_ret>>

DmaNext ==
  \/ \E dev \in Channels : \/ alt_dma_txchan_reg(dev) \/ alt_dma_rxchan_reg(dev)
                          \/ alt_flash_device_register(dev)
                          \/ Done(dev)
  \/ \E name \in Names : alt_dma_txchan_open(name) \/ alt_dma_rxchan_open(name)
                          \/ alt_flash_open_dev(name)
  \/ alt_dma_txchan_close \/ alt_dma_rxchan_close \/ alt_flash_close_dev
  \/ \E handle \in Handles : alt_dma_txchan_send(handle) \/ alt_dma_rxchan_prepare(handle)
  \/ alt_dma_txchan_space \/ alt_dma_txchan_ioctl \/ alt_dma_rxchan_ioctl
  \/ alt_dma_rxchan_depth

DmaSpec == DmaInit /\ [][DmaNext]_dmaVars

-----------------------------------------------------------------------------
(***************************************************************************)
(* The requests a program has outstanding are those the drivers hold, each *)
(* once and with a device of the name and the direction it asked for,      *)
(* however many devices share a name, whatever was registered, closed or   *)
(* refused since; what it has open is of that name and kind, too; and      *)
(* while it posts no more requests than space() told it there was room     *)
(* for, none is refused (alt_dma.h:72-216, alt_dma_txchan_open.c:41-63,    *)
(* alt_dma_rxchan_open.c:41-63, alt_flash_dev.c:47-68).                    *)
(***************************************************************************)
RequestsAtTheirDevice ==
  /\ \A r \in outstanding :
       \E dev \in Channels : \E k \in DOMAIN queue[dev] :
         /\ queue[dev][k] = r.handle /\ dev.dir = r.dir /\ dev.name = r.name
         /\ \A e \in Channels : \A j \in DOMAIN queue[e] :
              queue[e][j] = r.handle => e = dev /\ j = k
  /\ \A dev \in Channels : \A k \in DOMAIN queue[dev] :
       \E r \in outstanding : r.handle = queue[dev][k]
  /\ \A dir \in Directions :
       chan[dir] # NoChan => chan[dir].dir = dir /\ chan[dir].name = asked[dir]
  /\ chan["tx"] # NoChan => Len(queue[chan["tx"]]) + room["tx"] <= QueueDepth

DmaTypeOK ==
  /\ dma_list \in [Directions -> Seq(Channels)] /\ queue \in [Channels -> Seq(Handles)]
  /\ chan \in [Directions -> Channels \cup {NoChan}]
  /\ asked \in [Directions -> Names \cup {NoName}] /\ room \in [Directions -> 0 .. QueueDepth]
=============================================================================
