----------------------------- MODULE GodotEdits -----------------------------
(***************************************************************************)
(* The edit() calls of scripts/apply_godot_mister.py, in the order of the  *)
(* script.  A file is named as the script's variable for it, or shortly by *)
(* its base name; a marker or an anchor is named by the words that make it *)
(* unique.  Upstream text that no edit looks for is left out: it is the    *)
(* Ending of its file.                                                       *)
(***************************************************************************)
EXTENDS Integers, Sequences

\* The anchor stays in the new text: the edit puts its own before or behind it.
Insert(f, m, a) == [file |-> f, marker |-> m, anchor |-> a, adds |-> {m}, drops |-> {}]

\* The anchor goes: the new text splits or rewrites it.
Replace(f, m, a) == [file |-> f, marker |-> m, anchor |-> a, adds |-> {m}, drops |-> {a}]

\* The new text holds more that an edit looks for: an anchor, or another edit's marker.
With(e, more) == [e EXCEPT !.adds = @ \union more]

\* Canvas draws to the fabric, and the display driver.
BlitterEdits == <<
  Insert("SCsub", "mister/display_server_mister.cpp", "SConscript(x11)"),
  Insert("OC", "mister/display_server_mister.h", "include certs_compressed"),
  Replace("hashfuncs", "32-bit fastmod", "return n % d"),
  Insert("RC", "include mister_fabric_bridge", "include rasterizer_canvas"),
  Insert("RC", "begin_canvas", "use_pixel_snap"),
  Insert("RC", "target_clear(col)", "clear_requested"),
  Replace("RC", "skip the GL clear", "glClear"),
  With(Insert("RC", "note_unhandled", "switch c->type"), {"CLIP_IGNORE, ANIMATION_SLICE"}),
  Replace("RC", "emit_rect", "dst_rect"),
  Insert("RC", "draws already went to the fabric", "copy data, glBindBuffer"),
  Insert("RC", "no GL instance buffers in fabric mode", "max_instances_per_buffer"),
  Insert("TS", "include mister_fabric_bridge", "include texture_storage"),
  Replace("TS", "texture_set", "read = img->get_data"),
  Replace("TS", "texture_free", "is_render_target"),
  With(Replace("TS", "target_clear(rt->clear_color)", "clear_requested, bind fbo"),
       {"target_clear, bind fbo"}),
  Replace("TS", "no GL clear, the fabric owns the frame", "target_clear, bind fbo"),
  Insert("RG", "include mister_fabric_bridge", "include rasterizer_gles3"),
  Insert("RG", "the fabric owns the frame", "blit_render_targets_to_screen"),
  Insert("OC", "register_mister_driver", "register_x11_driver") >>

\* The audio ring driver and the joystick word.
AudioInputEdits == <<
  Insert("SCsub", "mister/audio_driver_mister.cpp", "SConscript(x11)"),
  Insert("OL", "mister/audio_driver_mister.h", "include joypad_linux"),
  Insert("OL", "AudioDriverMister driver_mister", "driver_alsa"),
  Insert("OC", "add_driver(&driver_mister)", "add_driver(&driver_pulseaudio)"),
  Replace("OC", "DDR joystick replaces JoypadLinux", "memnew(JoypadLinux)"),
  Replace("OC", "if joypad, process_joypads", "process_joypads") >>

\* Unchanged theme overrides return early.
Override(kind) ==
  Replace("CC", "unchanged " \o kind \o " override", "add_theme_" \o kind \o "_override")

ThemeEdits == <<Override("color"), Override("constant"), Override("font_size")>>

\* Vorbis headers and codebooks shared by a stream's playbacks.
VorbisSharedEdits == <<
  Insert("VH", "struct OggVorbisSharedSetup", "include vorbis/codec"),
  Insert("VH", "shared_setup: playback", "dsp_state, block"),
  With(Insert("VH", "shared_setup: stream", "packet_sequence"), {"stream owns one ref"}),
  Insert("VC", "OggVorbisSharedSetup::create", "_alloc_vorbis"),
  Insert("VC", "shared setup, no header parse", "vorbis_data_playback"),
  Replace("VC", "vi->channels > 1", "info.channels > 1"),
  Replace("VC", "unref after the dsp state", "info_is_allocated"),
  With(Insert("VC", "rebuild the shared setup", "set_sampling_rate"),
       {"OggVorbisSharedSetup::create", "if enabled, create"}),
  With(Replace("VC", "release the shared setup", "~AudioStreamOggVorbis() {}"),
       {"destructor: unref the setup"}),
  With(Insert("VC", "include stdlib", "include ogg/ogg"), {"include stdlib, getenv"}) >>

\* Short clips decoded once: three of these give text that the next group rewrites.
VorbisPcmEdits == <<
  With(Insert("VH", "include audio_stream_wav", "include audio_stream"), {"PCM cache"}),
  With(Insert("VH", "Ref<AudioStreamWAV> pcm_cache;", "stream owns one ref"),
       {"pcm_cache, _build_pcm_cache"}),
  With(Insert("VC", "_build_pcm_cache()", "instantiate_playback"),
       {"pb = instantiate_playback", "_build_pcm_cache, unref", "pcm_cache->set_data",
        "pcm_cache.is_valid && !loop"}),
  Insert("VC", "_build_pcm_cache(); // MISTER", "if enabled, create") >>

\* The decode as a worker task: five of these are anchored on text of the two groups above.
VorbisAsyncEdits == <<
  Insert("VH", "include worker_thread_pool", "PCM cache"),
  Replace("VH", "SafeFlag pcm_ready;", "pcm_cache, _build_pcm_cache"),
  With(Replace("VC", "_decode_pcm", "pb = instantiate_playback"), {"w = s->_decode_pcm"}),
  Replace("VC", "pcm_ready.clear();", "_build_pcm_cache, unref"),
  Replace("VC", "w.instantiate", "pcm_cache->set_data"),
  Replace("VC", "pcm_ready.is_set() && !loop", "pcm_cache.is_valid && !loop"),
  Insert("VC", "_pcm_wait: the task reads packet_sequence", "set_packet_sequence"),
  Insert("VC", "reclaim the finished PCM task", "destructor: unref the setup") >>

\* Stamped lines for startup phases and loads.
BootlogEdits == <<
  Insert("os", "void mister_bootlog(", "include stdarg"),
  Replace("os", "bootlog begin", "benchmark_begin_measure"),
  With(Replace("os", "bootlog end", "benchmark_end_measure"), {"bootlog end, complete line"}),
  Insert("resource_loader", "mister_bootlog_on();", "include rendering_server"),
  Replace("resource_loader", "mf_boot_t0", "load_nesting++"),
  With(Insert("resource_loader", "bootlog load", "load_nesting--"),
       {"mf_boot_t0", "bootlog load, complete line"}),
  Insert("VC", "void mister_bootlog(const char", "include stdlib, getenv"),
  Insert("VC", "bootlog pcm", "w = s->_decode_pcm") >>

\* prof_scope(): an include in the file, and a scope at the head of a function.
ProfScope(f, function, scope, header) ==
  <<Insert(f, "include mister_prof", header), Insert(f, scope, function)>>

\* A further scope of a file: its text holds the marker of the first one, too.
MoreScope(f, function, scope) == With(Insert(f, "mf_prof // " \o function, function), {scope})

ProfEdits ==
  ProfScope("resource_loader", "_load", "MF_RES_LOAD", "include resource_loader")
  \o ProfScope("format_binary", "ResourceLoaderBinary", "MF_RES_BINARY", "include resource_format_binary")
  \o ProfScope("gdscript", "GDScript::reload", "MF_GD_RELOAD", "include gdscript")
  \o ProfScope("gd_parser", "parse", "MF_GD_PARSE", "include gdscript_parser")
  \o <<MoreScope("gd_parser", "parse_binary", "MF_GD_PARSE")>>
  \o ProfScope("gd_analyzer", "resolve_inheritance", "MF_GD_ANALYZE", "include gdscript_analyzer")
  \o <<MoreScope("gd_analyzer", "resolve_interface", "MF_GD_ANALYZE"),
       MoreScope("gd_analyzer", "resolve_body", "MF_GD_ANALYZE"),
       MoreScope("gd_analyzer", "resolve_dependencies", "MF_GD_ANALYZE")>>
  \o ProfScope("gd_compiler", "compile", "MF_GD_COMPILE", "include gdscript_compiler")
  \o ProfScope("packed_scene", "instantiate", "MF_SCENE_INST", "include packed_scene")
  \o ProfScope("node", "_propagate_ready", "MF_READY", "include node")
  \o ProfScope("webp", "_webp_unpack", "MF_WEBP", "include webp_common")
  \o ProfScope("VC", "maybe_update_info", "MF_OGG_INFO", "include audio_stream_ogg_vorbis")
  \o <<Insert("resource_loader", "mister_prof_dump load", "bootlog load, complete line"),
       Insert("os", "include mister_prof", "include os"),
       Insert("os", "mister_prof_dump phase", "bootlog end, complete line")>>

\* Parsers kept for later dependents.
ParserKeepEdits == <<
  Insert("GCH", "mister_parser_keep;", "parser_map"),
  Insert("GC", "include stdlib", "include gdscript_cache"),
  Insert("GC", "bool GDScriptCache::mister_keep_parsers()", "get_parser"),
  Insert("GC", "mister_parser_keep[p_path] = ref", "parser_map[p_path] = ref"),
  Insert("GC", "mister_parser_dropped.push_back", "parser_map.erase"),
  Replace("GC", "mister_parser_keep.clear", "parser_map_refs.clear"),
  Insert("GCH", "bool mister_raising = false;", "clearing, abandoned"),
  Insert("GC", "struct MfRaising", "raise_status"),
  Replace("gdscript", "finish the analysis here", "local parser"),
  Replace("gdscript", "mf_ref->analyzer->resolve_dependencies()", "analyzer.analyze") >>

\* The one-shot tokenizer.  The script makes these three calls twice.
TokenizeEdits == <<
  Insert("GR", "static void mister_tokenize_mode()", "initialize_gdscript_module"),
  Replace("GR", "mister_tokenize_mode(); // MISTER", "register_functions"),
  Insert("GR", "#include <unistd.h> // MISTER", "include resource_loader") >>

\* What the driver answered, and the null GL that replays it.
NullGLEdits == <<
  Insert("GCF", "void mister_bootlog(const char", "include config"),
  Insert("GCF", "bootlog gl version", "GL_MAX_SAMPLES"),
  Insert("RG", "include mister_null_gl", "include rasterizer_gles3"),
  Insert("RG", "MisterNullGL::get_proc", "glad_loaded") >>

\* Setters that return early on an unchanged value, and one compiler workaround.
SetterEdits == <<
  Replace("AS", "has_animation", "get_animation_names.has"),
  Insert("AS", "already playing this animation", "playing = true"),
  Insert("AS", "mf_same && frame == mf_frame", "notify, queue_redraw"),
  Replace("material", "unchanged shader parameter", "*v = p_value"),
  Insert("surface_tool", "GCC 10.2 ICE", "include surface_tool"),
  Replace("collision_shape", "unchanged disabled", "set_disabled") >>

\* Empty canvas items, the near-sorted process lists, and the segment cull.
CullSortEdits == <<
  Replace("RCC", "empty leaf item", "visibility_layer"),
  Insert("ST", "_mister_sort_process_list", "_process_group"),
  With(Replace("ST", "_mister_sort: physics", "sort_custom: physics priority"),
       {"_mister_sort_process_list"}),
  With(Replace("ST", "_mister_sort: priority", "sort_custom: priority"),
       {"_mister_sort_process_list"}),
  Replace("bvh", "exact pre-tests", "intersects_segment") >>

\* Only the z range in use is scanned and cleared.
ZListEdits == <<
  Insert("RCH", "z_used_min", "z_list, z_last_list"),
  Insert("RCC", "arrays start all-null", "memalloc"),
  Replace("RCC", "record the z slot", "r_z_list[zidx] = ci"),
  Replace("RCC", "ranged z link", "memset, for children"),
  Replace("RCC", "clear only the used range", "for z_range") >>

\* The inline cache of property access by name.
NamedCacheEdits == <<
  Insert("GFH", "struct MisterNamedCache", "_code_size"),
  Insert("GFC", "memdelete_arr(mister_named_cache)", "~GDScriptFunction"),
  Replace("GVM", "_mister_named_set(ip,", "set_named"),
  Replace("GVM", "_mister_named_get(ip,", "get_named") >>

\* Filled polygons: the last one is anchored on what note_unhandled inserted.
PolygonEdits == <<
  Replace("RC", "polygon_created", "polygon id"),
  Insert("RC", "polygon_freed", "free_polygon"),
  Replace("RC", "emit_polygon", "ninepatch_margins"),
  Replace("RC", "TYPE_POLYGON", "CLIP_IGNORE, ANIMATION_SLICE") >>

\* Per-frame timing.
FramelogEdits == <<
  Insert("MM", "include mister_framelog", "include main"),
  Insert("MM", "MisterFramelog::begin()", "ticks"),
  Insert("MM", "MisterFramelog::mark_physics", "flush_buffered_events"),
  Replace("MM", "MisterFramelog::mark_process", "message_queue->flush"),
  Insert("MM", "MisterFramelog::mark_draw", "process_ticks"),
  Insert("MM", "MisterFramelog::mark_tail", "add_frame_delay") >>

\* The whole script.
GodotEditList ==
  BlitterEdits \o AudioInputEdits \o ThemeEdits
  \o VorbisSharedEdits \o VorbisPcmEdits \o VorbisAsyncEdits
  \o BootlogEdits \o ProfEdits \o ParserKeepEdits
  \o TokenizeEdits \o TokenizeEdits
  \o NullGLEdits \o SetterEdits \o CullSortEdits \o ZListEdits
  \o NamedCacheEdits \o PolygonEdits \o FramelogEdits

EndOfFile == "end of file"

EditedFiles == {GodotEditList[i].file : i \in DOMAIN GodotEditList}

\* A stock file holds every anchor that no edit brings in.
StockTree ==
  [f \in EditedFiles |->
     LET own == {i \in DOMAIN GodotEditList : GodotEditList[i].file = f}
     IN ({GodotEditList[i].anchor : i \in own} \ UNION {GodotEditList[i].adds : i \in own})
          \union {EndOfFile}]
=============================================================================
