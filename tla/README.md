# Pixelflut v6: TLA+ specifications and proofs

Pixelflut is a wall that anybody on the network may paint on. This repository holds a
server in which a pixel is set by an IPv6 packet: the destination address carries x, y and
the colour, a DPDK thread polls the network card and writes into a framebuffer, and the
main thread shows the framebuffer through SDL or VNC frontends. Around it are three
packet generators and the sketch of an XDP variant.

Almost all of the files are a vendored DPDK 19.05. The project's own code is the server in
`src/DPDK/dpdk-19.05/examples/pixelflut_v6/` (in what follows, file names without a
directory are in there), the clients in `examples/pixelflut_v6_client/`,
`examples/pixelflut_v6_client_dpdk/` and `examples/pixelflut_client_v42/`, and `src/XDP/`.

## 1. Inventory

### Components, their state and operations

| Component | State | Operations |
|---|---|---|
| Framebuffer (`framebuffer.c`) | `struct fb`: `size.width`, `size.height`, `pixels` (a heap block), `pixelCounter` | `fb_alloc`, `fb_set_pixel`, `fb_resize`, `fb_set_size`, `fb_free` |
| Receive path (`network.c`) | port, mbuf pool, `force_quit` | `net_listen`, `init_port`, `dpdk_thread` (poll, decode, draw, free the mbuf; close the port), `signal_handler` |
| Work queues (`workqueue.c`) | array of `struct workqueue`: list, mutex, condition variable, `do_exit`, thread | `workqueue_init`, `workqueue_deinit`, `workqueue_enqueue`, `work_thread`, `stop_workqueue` |
| Linked list (`llist.c`) | `head`, `tail`, links and owner of the entries | append, remove, get, length |
| Receive ring and buffer pool (`em_rxtx.c`, `rte_mempool.h` of the vendored DPDK, as `network.c` uses them) | descriptors, head and tail register, `rx_tail`, `nb_rx_hold`; the pool and its per-lcore cache | fill the ring, `eth_em_recv_pkts`, `rte_pktmbuf_free`, close the port |
| DPDK client (`pixelflut_v6_client_dpdk/basicfwd.c`) with its transmit ring (`em_rxtx.c`) | array `m_head`, sweep position, descriptors, `nb_tx_free`, `nb_tx_used`, `last_desc_cleaned` | allocate and build a burst, `eth_em_xmit_pkts`, free what was not sent |
| Raw socket client (`pixelflut_v6_client/foo.c`) | a square, a position in it, a colour | send one packet per pixel |
| XDP program (`src/XDP/xdp_pixelflut.c`) | a map indexed by x + y * WIDTH | decode, update |
| Lifecycle (`main.c`) | `frontend_names`, `frontend_cnt`, list of frontends, `err`, `do_exit` | options, start of the subsystems, main loop, labels `fail_fronts`, `fail`, `fail_fronts_free_name` |
| Frontend registry (`frontend.c`) | table of frontends, the option string it cuts up | find a frontend, split the name from the options, configure |
| SDL frontend (`sdl.c`) | window, renderer, texture | alloc, free, update (events, resize, upload) |
| VNC frontend (`vnc.c`) | libvncserver screen with a copy of `fb->pixels`, font | alloc, start, update, draw_string, free, options `port` and `font` |
| Statistics (`main.c` 303-323) | counters of the second before | rates, the overlay text |
| v42 client, XDP user program and kernel module | none that lasts | send; print |

### How they interact

* `main` calls everything. It starts the queues and their worker threads, usually one of each (`workqueue_init`),
  and, through `net_listen`, the DPDK thread. It keeps no handle to the DPDK thread.
* The DPDK thread and the main thread share `struct fb` without a lock: the DPDK thread
  reads the size and the block and counts, the main thread replaces all of them in
  `fb_resize`, which `sdl_update` calls when the window changes.
* Workers and main share the queues under one mutex per queue. The flag `do_exit` is outside
  of the mutex.
* The worker's only user in the sources is `resize_cb` in `main.c`; it is reached only
  through `sdl_param.resize_cb`, which nobody assigns, so it is dead code. `fb_resize` is
  therefore called by the main thread only.
* Clients and servers share nothing but the packets: eight bytes of the destination address.
* The card and a driver share the descriptors of a ring without a lock. DD says whose a descriptor
  is, the tail register how far the card may go. The receive ring is filled by the main thread, which is an lcore
  of DPDK and leaves buffers in its cache; the polling thread is none and uses the pool directly.
* Signals: `net_listen` installs `signal_handler`, which sets `force_quit`; only the DPDK
  thread reads that. `do_exit` of `main.c` is set by a frontend whose update fails.

### Where the difficulty lies, and what correctness means

* **Framebuffer**: a resize under a running DPDK thread. Correct means that stores stay in
  the live picture, that a command paints its own pixel and counts once, that a resize
  leaves neither a leaked nor a twice-freed block and a blank picture, also when `malloc` fails.
* **Work queues**: lost wakeups, a worker that dies with the mutex, entries that remain
  when a queue is stopped. Correct means in order, one at a time, at most once, none after the
  stop, all freed and cleaned up, and all calls return.
* **Lifecycle**: each failing step must undo exactly what was done before it; threads use
  what main frees. Correct means that names are freed once, that nothing is used after it was
  freed, that errors reach the exit status and that a signal ends the server.
* **Frontends**: copies of the size and of the address of the pixels that grow stale.
* **Receive path**: a bounded pool of mbufs, each of which must come back; a card that must never write over
  a packet that has not been read, and must never be left without descriptors for ever.
* **Transmit path**: buffers are freed only when their descriptor is used again, and the card reports only one
  descriptor in 32. Correct means that a descriptor is not used again under the card, that a full ring drains and that
  no buffer is lost when a burst is accepted in part.
* **Linked list**: entries come from `malloc` with anything in their links. Correct means that head, tail and links
  represent what the callers appended and removed.
* **Addresses**: two clients and two servers, four pieces of code that must agree on where the bytes are.

`PROJECT.json` lists every component with its state of modelling and every such hazard at
the line where it bites.

## 2. Modules

| Module | Stands for |
|---|---|
| `Wall` | abstract: what the wall promises to painters and viewers |
| `Framebuffer` | `framebuffer.c` and its two threads, one load or store per step |
| `JobQueue` | abstract: what a set of work queues promises |
| `Workqueue` | `workqueue.c`: workers, main, mutexes, condition variables |
| `WorkqueueProofs` | theorems about `Workqueue`, including the refinement of `JobQueue` |
| `Server` | `main.c`, the thread and the signals of `network.c` |
| `ServerProofs` | theorems about `Server` |
| `Display` | `sdl.c` and `vnc.c` as the main loop updates them: windows, screens, SDL's event queue |
| `DisplayProofs` | theorems about `Display` |
| `PacketQueue` | abstract: a bounded queue of packets that can be closed |
| `DescriptorRing` | indices of a ring and what lies between two of them |
| `DescriptorRingProofs` | lemmas about those |
| `EmReceive` | `dpdk_thread`, the receive functions of the em driver, the mempool, the card |
| `EmReceiveProofs` | theorems about `EmReceive`, including the refinement of `PacketQueue` |
| `EmTransmit` | `lcore_main` of the DPDK client, the transmit functions of the em driver, the mempool, the card |
| `EmTransmitProofs` | theorems about `EmTransmit`, including the refinement of `PacketQueue` |
| `Llist` | `llist.c` |
| `LlistProofs` | theorems about `Llist` |
| `Wire` | both clients, the network, the decoding of both servers and where they store |
| `PictureProofs` | theorems about `Framebuffer`, including the refinement of `Wall`, and about `Wire` |
| `MCFramebuffer`, `MCWorkqueue`, `MCServer`, `MCDisplay`, `MCEmReceive`, `MCEmTransmit`, `MCLlist`, `MCWire` | constants and symmetry for TLC |

The operators whose names begin with `Bad` are broken variants of the definition that
follows them. No specification uses them. They stand for plausible mistakes in the code
(a forgotten broadcast, an off-by-one in a bound, a missing `free`); put in place of
the right definition, each makes the property it is listed with fail, which shows that the
property depends on the code.

### Framebuffer

`width`, `height`, `pixels`, `pixelCounter` are the fields of `struct fb`. The heap is
`live` (allocated blocks), `cells` (their lengths) and `words` (their contents). `rx` is the
DPDK thread in `fb_set_pixel`: `CheckX`, `CheckY`, `LoadWidth`, `LoadPixels`, `Store` are
the loads of lines 68 and 74 and the store of line 75. `rs` is the main thread in
`fb_resize`: `ResizeMalloc`/`ResizeFail`, `ResizeClear`, then `StoreWidth`, `StoreHeight`,
`StorePixels` in the order that the comparison of line 107 chooses, then `FreeOld`.

* `LoadWidth` returns the width that was compared with x or the present one: the source reads
  it twice, an optimising compiler need not. Other orders than those of the source are not
  modelled; the stores of one thread are seen in order, as on the x86 machines that the
  DPDK drivers here are used on.
* Arithmetic is modulo `Word` (`unsigned int`), so `width * height` can wrap. Lengths are
  counted in pixels; multiplying by four happens in `size_t` and is left out.
* A store outside of a live block is undefined behaviour. `StoreWild` records it in `wild`
  and the model stops.
* `disturbed` is history: it is set when a command and a switch of the fields
  overlap. `UndisturbedStoreFits` and the refinement promise things about the other
  commands; it is no excuse that the code could use.
* The counter's increment has one writer, so it is a single step with the store.
* `fb_free` is a step of `Server`, where the lifetime of the framebuffer matters.
  `fb_get_pixel`, `fb_get_fb_on_node` and `fb_free_all` have no caller.

`Wall` has four variables: the size, the canvas (a function from positions), the number of
accepted commands and `racing`. The mapping (`WallSize`, `WallCanvas` in `Framebuffer`) reads
the canvas out of the block through the code's own index. While the fields are being switched
the abstract picture is the old one; it changes with the last of the three stores. Under
`racing` the wall promises only that the size is kept, that a command counts and that it
changes at most one pixel of the picture.

### Workqueue

One sequence of entries, one mutex, one worker per queue. `worker[q]` follows `work_thread`
from line 21 (`start`) through the test of `do_exit` (`check`), the call of
`pthread_cond_wait` (`wait`), the wait (`waiting`), the wakeup and the mutex (`woken`), the
inner loop (`drain`), a callback (`run`), to the end. `main` is the main thread in
`workqueue_init` (`create`), between calls (`idle`), in `workqueue_enqueue` (`append`,
`signal`) and in `stop_workqueue` (`flag`, `wake`, `join`, `drop`), with the queue at work
and whether it undoes a failed `workqueue_init`.

* The callbacks are free to succeed or fail, each entry has or lacks `err` and `cleanup`.
* `pthread_cond_wait` releases the mutex and starts waiting in one step; a broadcast wakes who
  waits and is forgotten otherwise; `SpuriousWakeup` may happen at any time.
* Appending under the mutex is one step since nobody sees the middle of it; broadcasting after
  the unlock, setting the flag and broadcasting without the mutex are steps of their own.
* A worker that leaves its loop normally ends with the mutex held; one that gives up because of
  an error releases it. Both are in the model.
* `workqueue_init` leaves a freed (or NULL) array behind when it fails while `num_workqueues`
  keeps its value, and `main` then calls `workqueue_deinit`: `DeinitAfterFailure` sets `wild`.
* `NumQueues` is any positive number. `workqueue_init` asks `numa_available()` the wrong way round (section 4), so there is one
  queue on most machines; where there are none, `workqueue_enqueue` refuses everything and nothing can happen.
* Left out: `num_workqueue_items`, which is written and never read, and
  `numa_set_preferred`. Main is the only caller of enqueue and deinit, as in the sources.

### Server

`pc` is the place in `main`, named for its labels. `owned` is the set of indices of
`frontend_names` with a copy that is not yet freed (indices from 1, the array's are
from 0), `fronts` the list of frontends as the indices they came from, `freed` the number of
them that were freed. Each call that may fail (`workqueue_init`, `fb_alloc`, the frontend's
`alloc`, options, start and font, `net_listen`) has its outcomes as disjuncts with the label
that the code jumps to. A frontend is started from the last name to the first, as in the code.

* `RxPoll`, `RxDraw`, `RxBurstEnds`, `RxClose` are `dpdk_thread`. A burst is any number of draws.
* `Signal` is SIGINT or SIGTERM: `signal_handler` once `net_listen` has installed it, the default
  action before (SDL is told not to install handlers, sdl.c:40).
* `fault` names the first use of something freed. Reading the link of a frontend's list entry
  that was just freed (`llist_for_each` at main.c:333) may or may not go wrong; the model keeps both. These faults do
  happen; `FaultsConfined` says by which way only.
* Failures inside DPDK call `rte_exit` and end the process (`killed`).

### Display

The list of frontends is `Order`; `at` is the frontend being updated and `pc` the place in its
update: `turn` (before it), `events` and `upload` (in `sdl_update`, before and after its loop over the
events), `over` (the main loop has ended). `window` is the size each window has, `texture` that of its
texture, `events` the one queue that SDL keeps for all windows. `screen` and `copy` are what each VNC
server was created with: the size and the address of the pixels.

* `PollResized`, `PollNoTexture`, `PollNoMemory`, `PollForeign`, `PollQuit`, `PollEmpty` are the ways through the
  loop of `sdl_update`. The size is asked for when an event is handled (sdl.c:120). The result of
  `fb_resize` is dropped (sdl.c:139). Three variables are history: `dropped`, the windows whose last `fb_resize` failed,
  `resizer`, the window whose `fb_resize` succeeded last, and `unmatched`, the windows that got no
  texture (sdl.c:131-136 goes on with the next event).
* `fb_resize` is one step here; its interleavings are those of `Framebuffer`. It allocates before it
  frees, so the new address differs from the old one and may be an earlier one.
* `SDL_UpdateTexture` reads a whole texture at the pitch of the picture (`Reach`); where that ends beyond the
  picture the step is `UploadBeyond`.
* `UserResizes` and `UserQuits` are the users. SDL sends `SDL_QUIT` when the last window is closed, or when the user ends the
  program otherwise; to close one of two windows sends only window events, of which `sdl_update` takes none but changes of
  the size. `VncServe` is libvncserver's thread, which sends a screen
  at any time. A screen is sound when its address is the picture's and its area is no larger (`ScreenFits`).
* A window is never empty: SDL makes no texture of an empty size, and `fb_resize` is not reached.
* `fault` names what ended the run: `upload`, `screen` (memory that is not the picture's) or `assert` (sdl.c:118).

### EmReceive

The driver is the em driver, which the README of the server says it was tested with (e1000). `FillRing` is
`em_alloc_rx_queue_mbufs` in the main thread, one buffer at a time out of its cache (`CachedGet` is
`__mempool_generic_get`); `FillFails` is an empty pool, after which the port does not start. `Poll`,
`RecvOne`, `RecvEnds`, `Handle` and `BurstDone` are `dpdk_thread`: one turn of the loop of `eth_em_recv_pkts`,
its end with the update of the tail register (`GiveBack`), and the loop over the burst. `PortStop` is what
`rte_eth_dev_stop` and `rte_eth_dev_close` do to the ring. `CardReceives` is the card: it writes to the descriptor at its head unless
head and tail have met.

* `desc[i]` is the packet of a descriptor whose DD bit is set; the buffer under it is one of `filled`. Which buffer is
  where does not matter, only how many there are: `common`, `cache`, `filled` and the burst.
* The driver holds the descriptors it has taken and not given back: `Held` of them, which lie before `rxTail` (`HeldSlots`).
* All packets are alike to the driver. The branch of `dpdk_thread` on the Ethernet type and on the coordinates
  changes no buffer, so `Handle` covers all of its outcomes.
* A signal only sets `force_quit`, at any time; it is read between two bursts.
* The server runs without `rx_free_thresh` in its configuration, so the driver's default, 0, is in force: each
  non-empty burst moves the tail register. The model keeps the threshold as a parameter.

### EmTransmit

`AllocBurst`/`AllocFails`, `Build`, `DropOne`, `BurstDone` are `lcore_main`: allocation of 32 buffers at once, the sweep
over the rectangle, the loop that frees what was not accepted. `CleanFirst`, `NoCleanFirst`, `CleanMore`, `SendOne` and
`SendEnds` are `eth_em_xmit_pkts` with `em_xmit_cleanup` (`Cleanup`). `CardSends` sends the descriptor at the head and sets DD where RS is set.

* `pkt[i]` is the packet whose buffer `sw_ring[i]` still owns: it stays there after the card has sent it, until the
  descriptor is used again. `dd` and `rs` are the bits of the descriptors.
* Packets have one segment, as those of this client do.
* After a failed allocation the client prints a line and goes on with the buffers of the burst before. That is undefined
  and ends the model (`stale`); `ArrayNeverStale` says when it cannot happen.

### Llist

`head`, `tail`, `next`, `prev` and `list` are the fields of the source. `order` is history: the sequence that the callers
believe each list to be. `LlistAppend` and `LlistRemove` are one step each. The list's own lock is not enough for that: `llist_remove` reads `entry->list` before it
takes the lock (llist.c:60), `llist_get_entry` and `llist_for_each` take none. But the callers exclude each other: a queue's list is
used under the queue's mutex, or by main once the worker is joined (`ListsAreGuarded`), and the list of frontends by main only. `Recycle` frees the object
of an entry that is on no list and brings it back from `malloc` with anything in it. `LlistGetEntry` walks
along `next`; `llist_length` is where that walk ends.

Appending an entry that is already on a list is no behaviour of the callers. Reading a link after its entry was freed
(`llist_for_each` in `main.c`) is `Server`'s.

### Wire

`square` and `sweep` are the positions of the two clients, `net` the set of packets under way together with what their senders
meant; `picture` is `fb->pixels` and `map` the array of the XDP program. A byte has `Byte` values, and byte k of a number weighs
`Weight(k)`. `Address` is how both fill `dst_addr[8..15]`, byte by byte; `Decoded` is how `dpdk_thread` reads them, `XdpDecoded`
how the XDP program does, each with an index computed from its own width (`SetPixel`, `UpdateMap`).
`Arrives` shows a packet to both servers and may leave a copy under way; `Lost` removes one.

* A store outside of `picture` would add a cell, and violate the type invariant.
* Colours are `uint32_t` and sizes are such that the index `y * width + x` does not wrap (`WireAssumption`). What happens when it does is
  part of `Framebuffer`.
* The DPDK client leaves the last byte of a colour 0, `foo.c` sends it, and both servers drop it.
* The prefix of the address is not modelled. `foo.c` sends to 40:00:00:42, the DPDK client to 40:00:42:00, and neither server looks at it.
* `dpdk_thread` does not check the length of a frame. A frame of type IPv6 that is too short for the address cannot arrive: the 54 bytes
  of headers are fewer than the 60 of Ethernet's shortest frame. So there is no such case in the model.

## 3. Runs

Sizes are distinct states.

| Run | States | Question and answer |
|---|---|---|
| `fb_wall` | 600 000 | Which unlocked states stay consistent? The resting picture is exact (no leak, no double free, also after `-ENOMEM`); the announced size fits the block during a resize that grows or shrinks both dimensions; an undisturbed command stores inside the live picture; `Framebuffer` implements `Wall`. |
| `fb_race` | violation | A command that overlaps a resize stores outside (finding 1). |
| `wq_queues` | 170 000 | Work is overlooked only before a worker's first wakeup; `workqueue_deinit` leaves nothing behind; `Workqueue` implements `JobQueue`; enqueueing returns even for a queue whose worker died; a queue once served is served on; stopping returns unless flag and broadcast fall between the worker's test and its wait. |
| `wq_hang` | violation | In that window `workqueue_deinit` waits for ever (finding 2). |
| `server_lifecycle` | 4 000 | Every way through `main`: names are freed once; each use of something freed has one way that leads there (a frontend that quits, a list of frontends that is freed, queues that could not be created); exit status 0 means an unknown frontend; a signal stops the DPDK thread. |
| `server_signal` | violation | A signal does not end the server (finding 3). |
| `display_windows` | 4 100 000 | Two windows and a screen: no change of a window's size is lost but the one that a foreign window polls with a failing assertion; the picture has the size of the window that resized it last, unless that window's last `fb_resize` failed; an upload leaves the picture only for a window that lost it to the other one, or whose own failure was dropped; `SDL_QUIT` ends the main loop. |
| `display_foreign` | violation | A window polls the resize of the other one (finding 4). |
| `rx` | 4 300 | No buffer is lost, wherever the server stops; the card never writes over a packet that has not been read or a descriptor the driver still holds; a pool of 2 * ring - 1 + cache never runs out; the card gets descriptors again and what it wrote is read; the server handles every accepted packet once and in order (`PacketQueue`). |
| `tx` | 186 000 | No buffer is lost when a burst is accepted in part; `nb_tx_free` never counts a descriptor the card may still read, and the report that would let it count more is there when it is due; the client's pool suffices; a full ring drains; what is accepted is sent once and in order (`PacketQueue`). |
| `llist` | 11 000 | Pointers represent the sequences the callers built, whatever the memory of an entry held; walking finds them. |
| `wire` | 2 000 000 | A pixel only takes a colour that a client meant for it; no accepted packet stores outside; the two servers, each with its own decoding, agree wherever both have a pixel. |

### Bounds

* **Framebuffer**: pictures up to 2 x 2 contain every order of two sizes (larger, smaller, wider
  but lower, same area). Coordinates up to 2 reach inside and beside each picture. Three blocks: at most two are live, so one that was
  freed is handed out again while a command holds its address. Two colours, because the contents of blocks are part of the
  state. Products do not wrap in the runs: with a wrapped area two positions share a cell and the picture is no
  canvas. For sizes that wrap, and for all larger ones, there are the proofs. `fb_race` has 3 x 3 pictures and one colour. Counters are
  modulo 2 and wrap often.
* **Workqueue**: two queues are enough for one to be stopped while the other works and for
  `workqueue_init` to fail with a queue running; two entries let one run and one wait or be handed
  over, or both wait in their order. That this holds with more of both is proved (section 5). Nothing else is bounded: the number of entries is the number of enqueue calls.
* **Server**: up to three frontends of any kind, in any order, so that one is started, one fails and
  one was never reached. A queue of draws or signals needs no bound, as it only changes flags.
* **Display**: three sizes contain a window that becomes larger, smaller, or wider but lower; two blocks are all that
  can be live, and the address that a screen keeps becomes that of the picture again after two resizes; two pending
  events let a window change again before the first event is handled, and let events of both windows mix. The screen
  stands between the windows in the list.
* **EmReceive**: a ring of 4 and bursts of 3 fill, drain and wrap; a threshold of 1 lets the driver hold back descriptors from one
  burst to the next. The pools are too small for the ring (2), just enough for it (4), one more than ring and cache keep (7) and
  the size from which no allocation fails (9). Two packets tell an order from another.
* **EmTransmit**: a ring of 6 with both thresholds 2 has RS bits in several places and is full after two bursts of 3; pools in
  which an allocation fails (6), those that suffice (12) and more (15). The four pixels make every packet of a burst different.
* **Llist**: two lists let an entry move from one to the other and three entries have a first, a middle and a last. The memory of an entry
  starts with, and is recycled with, every value a field can have.
* **Wire**: bytes have two values, so a coordinate is below 4 and a colour below 16, and every byte of both is used. The picture is 2 x 2 and
  the XDP map 3 x 2, so that there are positions outside of both, of one, and lines of different length. Two packets under way
  may overtake each other or be repeated any number of times.

### Fairness

* `Workqueue`: weak fairness of the main thread inside its functions and of each worker: the scheduler
  runs who can run, and callbacks return. Strong fairness for taking the mutex in `workqueue_enqueue`:
  a worker that wakes spuriously again and again frees the mutex again and again, and a
  `pthread_mutex_lock` gets it eventually. Nothing is assumed of spurious wakeups, nor that main ever enqueues
  or stops anything.
* `Server`: weak fairness of main's own steps and of the DPDK thread's polling, the end of a burst and closing.
  Nobody has to send a signal, quit a frontend or draw.
* `Display`: weak fairness of the main thread's steps. Users may do nothing or resize all the time, and a VNC server
  may run for ever.
* `EmReceive`: weak fairness of the main thread filling the ring and of the polling thread, which never blocks. Packets and signals may
  come or not.
* `EmTransmit`: weak fairness of the client, which never blocks, and of the card, which sends what it is given.
* `Framebuffer`, `Llist` and `Wire` have no liveness property and no fairness.

Deadlock is checked in all runs but `rx`; a finished or undefined state stutters explicitly (`Undefined`, `Finished`, `Ended`, `Lost`). In
`rx` the server stops: the port is closed, or it could not be started.

## 4. Findings

1. `fb_race`: "Try to prevent oob writes" (framebuffer.c:106) orders the stores of `fb_resize`, but a
   command that has passed its checks stores with the width or the block of another size, outside of the
   block or into the one freed at line 114.
2. `wq_hang`: `stop_workqueue` sets `do_exit` and broadcasts without the mutex; a worker between lines 22 and
   23 misses both and `pthread_join` never returns, after main has said "Shutting down".
3. `server_signal`: "Signal received, preparing to exit" (network.c:58), but only the DPDK thread ends.
4. `display_foreign`: frontends "may be specified multiple times" (README.md:34) and `sdl_update` asserts that an event
   is its own window's (sdl.c:118); with two windows, the first to be updated polls the resize of the other.

Met while modelling, without a run of its own:

* After a failed `workqueue_init` the freed array is used again (`DeinitAfterFailure`).
* An unknown frontend gives exit status 0 (`ZeroMeansUnknownFrontend`).
* The first `pthread_cond_wait` of a worker ignores what is in its queue already (`ForgottenOnlyAtStart`).
* A server that ends because of a frontend does not wait for `dpdk_thread`: the port is never closed and the
  framebuffer is freed while it draws (`FaultsConfined`).
* `workqueue_init` (workqueue.c:74-77) makes one queue when `numa_available()` returns 0, which means that there *is* NUMA, and
  `numa_max_node()` queues, possibly none, when there is not. The intention was a queue for each node.
* The order of the stores of `fb_set_size` is chosen by the area only (framebuffer.c:106). From 1 x 3 to 2 x 1 the size between
  them is 2 x 3, more than either block holds; `AnnouncedSizeFits` is about sizes that grow or shrink in both directions.
* Beside an SDL window a VNC screen keeps the address it was created with (vnc.c:51), which the first resize of the
  window frees. `PictureFollowed` and `UploadInside` therefore speak of windows.
* The checks of `eth_em_tx_queue_setup` (em_rxtx.c:1228-1245) are not sufficient for an honest `nb_tx_free`. All descriptors look done at
  first, so a ring of 10 with `tx_free_thresh` and `tx_rs_thresh` 6 and bursts of 4 counts more free descriptors than there are.
  `TransmitAssumption` demands that the thresholds together are no larger than the ring; the defaults of DPDK are.
* The README of the server documents `-p` and `-b`; the option string of main.c:148 knows neither.
* The default font of main.c:247 is loaded after the options and replaces the one of `font=`.
* The v42 client takes buffers without end and gives none back; when the pool is empty it returns from a function declared `noreturn`, above
  which it says "Run until the application is quit or killed".

## 5. Proofs

The theorems hold for every value of the constants that meets the assumption named in the module.

**PictureProofs**, about `Framebuffer`, assumes `FramebufferAssumption`: coordinates are natural numbers, initial
sizes are positive and all sizes are below `Word`, and `Word`, `CounterWord` are positive. Nothing is assumed of
how sizes compare. The inductive invariant is `TypeOK /\ ResizeInv /\ CommandInv`. `ResizeInv` says for
each point of `fb_resize` which blocks are live, how long they are, and which fields are new already: without it
`RestingPictureIsExact` does not survive `FreeOld`. `CommandInv` says that an undisturbed command compared its
coordinates with the fields still in force: without it nothing is known at the store. On them rest
`RestingPicture`, `AnnouncedSize` (with the arithmetic lemma `TimesMonotone`), `UndisturbedStore` (with `PositionFits`: x + y * w < w * h)
and `HeadlessIsSafe` (without a window no store leaves the picture, `NoWildStore`), which needs an empty `Resizes` and initial sizes whose product does not wrap.
`FramebufferIsWall` shows that every step of `Framebuffer` is a step of `Wall` or a stutter, for sizes whose products do not wrap (`Unwrapped`). It adds
two invariants: `ExactInv` (all sizes in use are such) and `BlankInv` (the new block stays blank until the last of the three stores has made it the
picture, unless a command was disturbed). `Store` maps to `Paint` or, when disturbed, to `PaintAstray`; that it changes exactly one position
is `IndexInjective`, that a stray store into the old block hits some position is `IndexSurjective`. The last of the three stores maps to `Resize`, whichever it is.

**PictureProofs**, about `Wire`, assumes `WireAssumption`: a byte of at least two values, squares and a rectangle whose coordinates two bytes
can say, colours of four bytes, any sizes of picture and map. The way a number takes is cut into three lemmas on division: `FourBytes` (what
`v >> 8 * k` leaves of a number written with four digits), `TwoBytes` and `ThreeBytes` (what the servers put together from the digits). They are
proved by comparing products and from `DivisionUnique`, so they hold for every `Byte`. `WireInv` adds to the types that every packet under way
is one of those a client makes (`Sent`), that both clients stay in their areas (`ClientsHaveFields`; without it a coordinate could outgrow its two bytes), and
that the servers agree, which rests on both decodings giving the same three numbers. `ArrivesPaints` then says that one packet paints the position and colour its sender meant on both servers, and `PaintedCell`, from
`IndexInjective`, that it changes no other position. `WireTypeCorrect`, `ServersShowTheSame` and `PaintedIsMeant` follow, for any number of packets under way and
whatever the network does with them.

**WorkqueueProofs** assumes `WorkqueueAssumption`: at least one queue, and `NoJob` is no entry. The
invariant adds to `TypeOK`: `Holding` (a worker that looks at its queue holds the mutex; it runs an entry
exactly in `run`), `Distinct` (an entry is in one place: one slot of one queue, one worker, or main's hand,
and is not freed), `NotForgotten` (a worker that was woken before goes to wait on an empty queue), `Stopping`
(how far init and deinit have come) and `Accounted` (cleaned up are the freed entries that were
not settled and have a cleanup callback). `Distinct` is what makes `Accounted` inductive: an entry freed twice would be
cleaned up twice. Two consequences concern `Llist`: an entry that is being appended is on no list (`AppendsAreOnNoList`), as `llist_append` demands, and
no two threads change a list at once although `stop_workqueue` empties it without the mutex (`ListsAreGuarded`). Two more are what the liveness of the queues rests on, from a further invariant, `Guarding`, on `do_exit` and on who holds a mutex:
whoever holds the one that `workqueue_enqueue` waits for is a worker at work (`MutexNeverAbandoned`), and only the broadcast in the window of finding 2 makes
`stop_workqueue` hang (`HangsOnlyThroughWindow`). `NoForgottenWork` and `CleanShutdown` follow, and `WorkqueueIsJobQueue` maps each step to a step of
`JobQueue` or to a stutter: `EnqueueAppend` to `Accept`, `TakeEntry` to `Start`, the three ends of a callback
to `Finish`, `StopJoin` to `Close`, `StopDrop` to `Drop`.

**ServerProofs** assumes `ServerAssumption`: the bound on frontends is a natural number, kinds are those
three. `NamesInv` says that main owns exactly the names below `frontend_cnt`, plus one while a frontend is being
started: that is the counting that `fail_fronts_free_name` repairs. `DrawingInv` says that the DPDK thread
exists only in and after the main loop, and after it only when a frontend has ended it, and that broken queues come before picture, frontends and thread. `ReasonInv` says that main goes down with an error
or because of an unknown frontend. `NamesFreed`, `FaultsAreConfined` and `ZeroExit` follow.

**DisplayProofs** assumes `DisplayAssumption`: windows and screens are different and all in `Order`, sizes are positive,
and `Quit` is no window. The four invariants are inductive only together: `UploadInside` rests on `PictureFollowed` and
on the lemma `WholePictureFits` (a texture of the picture's size is read to the last pixel and no further), `WindowFollowed`
on `TypeOK` and on the lemmas about the queue (`TakeFirst`, `AddLast`): an event that is not the first stays pending, and one that is polled
by a foreign frontend leaves behind only the window it was of. `PictureFollowed` needs `resizer`, which says whose size the picture has.

**DescriptorRingProofs** has no assumption but a ring that is not empty. `Way` is the distance from one place to another; the lemmas say
how it changes when either end moves, and that what lies between two places is a sequence that grows at its end (`BetweenAppend`) and
shrinks at its front (`BetweenTail`).

**EmReceiveProofs** assumes `ReceiveAssumption`: a ring of at least two, a threshold below the ring's size less one, a cache of at
least two, any pool. The invariant measures everything from `rxTail`: the filled descriptors come first, up to `rdh`, then those the card may
fill, up to `rdt`, and the driver holds the rest (`RingInv`); and it counts the buffers (`PoolInv`). `CardStaysOff` is the first, for every
interleaving of card and driver: `rdh` runs from the end of the filled descriptors to `rdt`, where those the driver holds begin. `PoolSuffices` follows from the count: a burst is shorter than the ring, because the card cannot refill
what was not given back. With the figures of `network.c`, 2 * 512 - 1 + 128 is below 4096: `ServerNeverOutOfBuffers`. `NeverBothWaiting` is the safety part of `CardIsServed`: a card
without descriptors has left a packet where the driver looks next. `ReceiveImplementsQueue` maps
`CardReceives` to `Put`, `Handle` to `Take`, `PortStop` to `Shut`, and everything else to a stutter; taking a packet from the ring moves it
from one end of the concatenation of ring and burst to the other end of the same.

**EmTransmitProofs** assumes `TransmitAssumption`: thresholds that are together no larger than the ring, bursts smaller than
the cache, a pool that filled the receive ring. The invariant measures from the descriptor after the last one taken back: sent, known to the card, not yet
known, in this order; no descriptor on the way to the card is marked done (`RingInv`). Hence the descriptor that `em_xmit_cleanup` looks at, if
it is done, has everything before it sent. The other half of `FreeCountIsHonest` is that this descriptor *is* done once so many are sent: it needs `MarkInv`,
which says where the RS bits are (every `RsThresh`-th descriptor from the first in use, which is what `nb_tx_used` counts) and that a sent one among them carries DD, and
arithmetic of remainders (`RemainderStep`). That is the safety part of `FullRingDrains`. `PoolSuffices` counts buffers: at most the ring's and
one burst are out when the next is asked for; with the figures of the client its array is never stale (`ClientNeverStale`). `TransmitImplementsQueue` maps `SendOne` to `Put` and `CardSends` to `Take`.

**LlistProofs** assumes only that `Null` is neither a list nor an entry. `PointersHoldOrder` together with `TypeOK` is
inductive as it stands; no induction along a list is needed, because `order` names the place of each entry and a step only changes the links
next to one place. `AppendNeverAsserts` is the assertion of llist.c:45, `HeadIsOldest` what `work_thread` relies on when it takes the first entry.
`WalksAreRight` is about the recursive function that walks along a list. A recursive function is whatever solves its equation (`WalkFollowsLinks`); the entries in
their order solve it, and the first place where two solutions differed would follow one where they agree. That there is a first place
is `LeastNatural`, from the well-foundedness of the natural numbers, so no induction schema is needed.

**Only model-checked**: liveness (`EnqueueReturns`, `WorkIsServed`, `StopReturnsOutsideWindow`, `SignalStopsReceiving`,
`CloseEndsLoop`, `CardIsServed`, `FullRingDrains`). It rests on fairness and on which steps are enabled, and the prover knows no
ENABLED. For the queues and the rings the safety those properties rest on is proved: who holds what the other side waits for
(`MutexNeverAbandoned`, `HangsOnlyThroughWindow`, `NeverBothWaiting`, `FreeCountIsHonest`). All other properties of the runs that pass are proved: the invariants, the action properties and the refinements.

## 6. Limits

* After undefined behaviour (`wild`, `fault`) nothing is said.
* `struct sdl_param` is uninitialised; the models cover the program in which the stack holds NULL there.
* The drawing of text, the options of the VNC frontend, the option strings and the rates of the statistics are not modelled: they
  are sequential text and number work on data that no other part reads.
* Vendored DPDK is modelled where the program leans on it: the rings of one driver and the pool. Otherwise it appears as the outcomes of its calls.
  Its other drivers, libraries and applications are no part of this program.
* The cards are modelled from how the driver uses their registers and descriptors.
* `Wire` and the models of the rings are separate: what the one calls losing a packet includes the drops of the other.
* `util.h`, the XDP user program and the kernel module keep no state. The v42 client sends fixed packets until its pool is empty.

## 7. Plan

Done, the most important first: framebuffer, work queues, lifecycle, display, receive and transmit rings with their pools, linked lists,
the way of a pixel over the wire; and the proofs of all their safety properties. What is left:

1. `FrontendSpec`: `name,option=value` strings cut up in place against a reference definition; the options `port` and `font` of VNC.
2. `Statistics`: rates from counters read several times while the DPDK thread counts.
3. Composition of `Server` with `Workqueue` and `Framebuffer`: shutdown while frontends, workers and the DPDK
   thread are active.
4. Theorems: the abstract specifications `Wall`, `JobQueue` and `PacketQueue` keep what a reader expects of them (a finished entry is never
   started again, a queue that is shut stays empty), so that the refinements carry it over.
